---- MODULE Spec2Model ----
(***************************************************************************)
(* Model of erbium's DNS ingress (src/src/dns/mod.rs): the per-request     *)
(* UDP and TCP tasks, the bloom-of-token-buckets rate limiter and the DNS  *)
(* COOKIE validation.                                                      *)
(***************************************************************************)
EXTENDS Integers, Naturals, Sequences, FiniteSets, Bags, TLC

(***************************************************************************)
(* Bounds of the model.                                                    *)
(***************************************************************************)
MaxTasks == 2
MaxTime == 1
MaxSize == 10

Min(a, b) == IF a <= b THEN a ELSE b
Max(a, b) == IF a >= b THEN a ELSE b

(***************************************************************************)
(* Addresses.  An address is its octet string: 4 octets for IPv4 and 16    *)
(* for IPv6, as std::net::IpAddr::octets() gives them.                     *)
(***************************************************************************)
IP4A == <<192, 0, 2, 1>>
IP6A == <<32, 1, 13, 184, 0, 0, 0, 0, 0, 0, 0, 0, 0, 0, 0, 1>>
IP6B == <<32, 1, 13, 184, 0, 0, 0, 0, 0, 0, 0, 0, 0, 0, 0, 83>>

IP4B == <<192, 0, 2, 53>>

RemoteIPs == {IP4A}
LocalIPs == {IP6B}
AllRemoteIPs == {IP4A, IP6A}
AllLocalIPs == {IP6B, IP4B}
octets(ip) == ip

(***************************************************************************)
(* DNS COOKIE (RFC 7873).                                                  *)
(***************************************************************************)
COOKIE_KEY == <<1, 35, 69, 103, 137, 171, 205, 239>>
OLD_KEY == <<254, 220, 186, 152, 118, 84, 50, 16>>
Keys == {COOKIE_KEY, OLD_KEY}

\* HMAC-SHA256 as an ideal MAC: the tag determines the key and the data.
HmacSha256(key, data) == <<key, data>>

\* A tag that no key produces.
BadTag == <<<<>>, <<>>>>

ClientCookieA == <<1, 2, 3, 4, 5, 6, 7, 8>>
ClientCookieB == <<8, 7, 6, 5, 4, 3, 2, 1>>

\* The cookie of a query's EDNS: absent, client half only, or both halves.
NoCookie == [present |-> FALSE, client |-> <<>>, has_server |-> FALSE, server |-> BadTag]
ClientOnly(c) == [present |-> TRUE, client |-> c, has_server |-> FALSE, server |-> BadTag]
FullCookie(c, s) == [present |-> TRUE, client |-> c, has_server |-> TRUE, server |-> s]

\* Mutant: the local address is left out of the MAC.
calculate_cookie_nolocal(msg, client, key) ==
    HmacSha256(key, client \o octets(msg.remote_ip))

\* Mutant: the protocol goes into the MAC.
calculate_cookie_protocol(msg, client, key) ==
    HmacSha256(key, client \o octets(msg.local_ip) \o octets(msg.remote_ip)
                    \o <<msg.protocol>>)

\* DnsMessage::calculate_cookie
calculate_cookie(msg, client, key) ==
    HmacSha256(key, client \o octets(msg.local_ip) \o octets(msg.remote_ip))

\* Mutant: a client cookie without a server cookie is classified Bad.
validate_cookie_key_clientbad(msg, key) ==
    IF msg.cookie.present
    THEN IF msg.cookie.has_server
            /\ calculate_cookie(msg, msg.cookie.client, key) = msg.cookie.server
         THEN "Good"
         ELSE "Bad"
    ELSE "Missing"

\* DnsMessage::validate_cookie_key
validate_cookie_key(msg, key) ==
    IF msg.cookie.present /\ msg.cookie.has_server
    THEN IF calculate_cookie(msg, msg.cookie.client, key) = msg.cookie.server
         THEN "Good"
         ELSE "Bad"
    ELSE "Missing"

\* Mutant: the old key is never tried.
validate_cookie_newonly(msg, key, oldkey) ==
    [status |-> validate_cookie_key(msg, key), tried |-> <<key>>]

\* DnsMessage::validate_cookie; tried lists the keys handed to
\* validate_cookie_key, in call order.
validate_cookie(msg, key, oldkey) ==
    LET first == validate_cookie_key(msg, key)
    IN IF first = "Bad"
       THEN [status |-> validate_cookie_key(msg, oldkey), tried |-> <<key, oldkey>>]
       ELSE [status |-> first, tried |-> <<key>>]

(***************************************************************************)
(* Token bucket (bucket::GenericTokenBucket).                              *)
(***************************************************************************)
Capacity == 3
Rate == 1

NewBucket == [tokens |-> Capacity, last |-> 0]

\* Tokens the bucket holds at time t: continuous refill, capped at capacity.
Available(b, t) == Min(Capacity, b.tokens + Rate * (t - b.last))

\* GenericTokenBucket::check
BucketCheck(b, t, n) == Available(b, t) >= n

\* GenericTokenBucket::deplete
BucketDeplete(b, t, n) == [tokens |-> Available(b, t) - n, last |-> t]

(***************************************************************************)
(* IpRateLimiter                                                           *)
(***************************************************************************)
NBuckets == 256
BucketIds == 0..(NBuckets - 1)

SEED1 == "0x1234_5678_9ABC_DEF0"
SEED2 == "0x2345_6789_ABCD_EF01"
Seeds == {SEED1, SEED2}

\* Values DefaultHasher may give (its algorithm is unspecified).
HashVals == {1, 255}

VARIABLES now, buckets, hasher, inflight, sentCost, wstart, overlap, cv,
          conns, svc, radv, reqs, metrics

vars ==
    <<now, buckets, hasher, inflight, sentCost, wstart, overlap, cv, conns, svc, radv,
      reqs, metrics>>

\* IpRateLimiter::hash_ip
hash_ip(seed, ip) == hasher[<<seed, ip>>]

\* What hash_ip gives with DefaultHasher::new(), by the buckets the hashes
\* select: 192.0.2.1 has the buckets 124 and 169, 2001:db8::1 the buckets 45
\* and 3, so that the two addresses have no bucket in common.
DefaultHasher ==
    [x \in Seeds \X AllRemoteIPs |->
        IF x[2] = IP4A THEN (IF x[1] = SEED1 THEN 124 ELSE 169)
        ELSE (IF x[1] = SEED1 THEN 45 ELSE 3)]

\* IpRateLimiter::check, index of the first bucket.
bucket1(hash1) == hash1 % NBuckets

\* Mutant: no collision fixup.
bucket2_nofixup(hash1, hash2) == hash2 % (NBuckets - 1)

\* IpRateLimiter::check, index of the second bucket.
bucket2(hash1, hash2) ==
    LET b == hash2 % (NBuckets - 1)
    IN IF b = bucket1(hash1) THEN NBuckets - 1 ELSE b

Bucket1(ip) == bucket1(hash_ip(SEED1, ip))
Bucket2(ip) == bucket2(hash_ip(SEED1, ip), hash_ip(SEED2, ip))

(***************************************************************************)
(* Messages and per-request tasks.                                         *)
(***************************************************************************)
QuerySize == 2
RefusedSize == 2
Rcodes == {"NOERROR", "REFUSED"}

\* DnsListenerHandler::build_dns_message
build_dns_message(in_size, cookie, local_ip, remote_ip, protocol) ==
    [cookie |-> cookie, local_ip |-> local_ip, remote_ip |-> remote_ip,
     protocol |-> protocol, in_size |-> in_size]

NoMsg == build_dns_message(0, NoCookie, IP6B, IP6A, "UDP")

\* The server cookie a client of remote_ip learnt from local_ip under key.
ServerCookie(client, key, local_ip, remote_ip) ==
    calculate_cookie(build_dns_message(0, NoCookie, local_ip, remote_ip, "UDP"), client, key)

\* The cookies the clients of the request tasks put in their queries.
QueryCookies(local_ip, remote_ip) ==
    {NoCookie,
     FullCookie(ClientCookieA, ServerCookie(ClientCookieA, COOKIE_KEY, local_ip, remote_ip))}

(***************************************************************************)
(* Reply synthesis.  An Option is a sequence of at most one element.       *)
(***************************************************************************)
None == <<>>
Some(x) == <<x>>

\* Octets of an HMAC-SHA256 result, and of the server half of a cookie.
MacLen == 32
ServerCookieLen == 32

\* mac.code()[..n]: the first n octets of a MAC of MacLen octets.
Prefix(mac, n) == IF n >= MacLen THEN mac ELSE <<"prefix", n, mac>>

\* The decimal and hexadecimal text of a number.
HexDigit(d) == SubSeq("0123456789abcdef", d + 1, d + 1)
RECURSIVE Hex(_)
Hex(n) == IF n < 16 THEN HexDigit(n) ELSE Hex(n \div 16) \o HexDigit(n % 16)
RECURSIVE Dec(_)
Dec(n) == IF n < 10 THEN HexDigit(n) ELSE Dec(n \div 10) \o HexDigit(n % 10)

\* The eight 16-bit groups of an IPv6 address.
Segments(ip) == [i \in 1..8 |-> ip[2 * i - 1] * 256 + ip[2 * i]]

\* The length of the run of zero groups that starts at group i.
RECURSIVE ZeroRun(_, _)
ZeroRun(seg, i) == IF i > 8 \/ seg[i] # 0 THEN 0 ELSE 1 + ZeroRun(seg, i + 1)

\* The groups from i to j, in hexadecimal, separated by colons.
RECURSIVE Groups(_, _, _)
Groups(seg, i, j) ==
    IF i > j THEN ""
    ELSE IF i = j THEN Hex(seg[i])
    ELSE Hex(seg[i]) \o ":" \o Groups(seg, i + 1, j)

DisplayV4(ip) == Dec(ip[1]) \o "." \o Dec(ip[2]) \o "." \o Dec(ip[3]) \o "." \o Dec(ip[4])

\* std::net::Ipv6Addr's Display: the longest run of two or more zero groups,
\* the leftmost on a tie, is written "::"; an IPv4-mapped address is written
\* with its last 32 bits dotted.
DisplayV6(ip) ==
    LET seg == Segments(ip)
        longest == CHOOSE i \in 1..8 :
                      \A j \in 1..8 : \/ ZeroRun(seg, i) > ZeroRun(seg, j)
                                      \/ ZeroRun(seg, i) = ZeroRun(seg, j) /\ i <= j
        run == ZeroRun(seg, longest)
    IN IF \A i \in 1..8 : seg[i] = 0 THEN "::"
       ELSE IF (\A i \in 1..7 : seg[i] = 0) /\ seg[8] = 1 THEN "::1"
       ELSE IF (\A i \in 1..5 : seg[i] = 0) /\ seg[6] = 65535
            THEN "::ffff:" \o DisplayV4(SubSeq(ip, 13, 16))
       ELSE IF run >= 2
            THEN Groups(seg, 1, longest - 1) \o "::" \o Groups(seg, longest + run, 8)
       ELSE Groups(seg, 1, 8)

\* format!("{}", ip) of a std::net::IpAddr.
Display(ip) == IF Len(ip) = 4 THEN DisplayV4(ip) ELSE DisplayV6(ip)

\* The parsed query (dnspkt::DNSPkt) as far as reply synthesis reads it.
DNSQuery(qid, question, edns_ver, bufsize, nsid, cookie) ==
    [qid |-> qid, question |-> question, edns_ver |-> edns_ver, bufsize |-> bufsize,
     nsid |-> nsid, cookie |-> cookie]

\* struct DnsMessage: the query with the addresses it was received on and from.
DnsMessage(in_query, in_size, local_ip, remote_ip, remote_port, protocol) ==
    [in_query |-> in_query, cookie |-> in_query.cookie, in_size |-> in_size,
     local_ip |-> local_ip, remote_ip |-> remote_ip, remote_port |-> remote_port,
     protocol |-> protocol]

\* The EDNS options of a reply.
NoEde == [present |-> FALSE, code |-> "", text |-> ""]
Ede(code, text) == [present |-> TRUE, code |-> code, text |-> text]
EdnsData(nsid, cookie, ede) == [nsid |-> nsid, cookie |-> cookie, ede |-> ede]

\* The reply of the resolver chain (the out reply).
OutReplyPkt(rcode, tc, aa, cd, ad, ra, answer, nameserver, additional) ==
    [rcode |-> rcode, tc |-> tc, aa |-> aa, cd |-> cd, ad |-> ad, ra |-> ra,
     answer |-> answer, nameserver |-> nameserver, additional |-> additional]

\* Mutant: the EDNS version of the query is copied to the reply.
create_in_reply_ednsver(msg, outr) ==
    [unreachable |-> FALSE, qid |-> msg.in_query.qid, rd |-> FALSE, tc |-> outr.tc,
     aa |-> outr.aa, qr |-> TRUE, opcode |-> "QUERY", cd |-> outr.cd, ad |-> outr.ad,
     ra |-> outr.ra, rcode |-> outr.rcode, bufsize |-> 4096,
     edns_ver |-> msg.in_query.edns_ver,
     edns_do |-> FALSE, question |-> msg.in_query.question, answer |-> outr.answer,
     nameserver |-> outr.answer, additional |-> outr.additional,
     edns |-> EdnsData(IF msg.in_query.nsid THEN Some(Display(msg.local_ip)) ELSE None,
                       IF msg.cookie.present
                       THEN FullCookie(msg.cookie.client,
                                       Prefix(calculate_cookie(msg, msg.cookie.client, COOKIE_KEY),
                                              ServerCookieLen))
                       ELSE NoCookie,
                       NoEde)]

\* Mutant: the NSID is the text of the peer's address.
create_in_reply_nsidremote(msg, outr) ==
    [unreachable |-> FALSE, qid |-> msg.in_query.qid, rd |-> FALSE, tc |-> outr.tc,
     aa |-> outr.aa, qr |-> TRUE, opcode |-> "QUERY", cd |-> outr.cd, ad |-> outr.ad,
     ra |-> outr.ra, rcode |-> outr.rcode, bufsize |-> 4096,
     edns_ver |-> IF msg.in_query.edns_ver = None THEN None ELSE Some(0),
     edns_do |-> FALSE, question |-> msg.in_query.question, answer |-> outr.answer,
     nameserver |-> outr.answer, additional |-> outr.additional,
     edns |-> EdnsData(IF msg.in_query.nsid THEN Some(Display(msg.remote_ip)) ELSE None,
                       IF msg.cookie.present
                       THEN FullCookie(msg.cookie.client,
                                       Prefix(calculate_cookie(msg, msg.cookie.client, COOKIE_KEY),
                                              ServerCookieLen))
                       ELSE NoCookie,
                       NoEde)]

\* Mutant: the server half is the query's own server cookie, echoed.
create_in_reply_echo(msg, outr) ==
    [unreachable |-> FALSE, qid |-> msg.in_query.qid, rd |-> FALSE, tc |-> outr.tc,
     aa |-> outr.aa, qr |-> TRUE, opcode |-> "QUERY", cd |-> outr.cd, ad |-> outr.ad,
     ra |-> outr.ra, rcode |-> outr.rcode, bufsize |-> 4096,
     edns_ver |-> IF msg.in_query.edns_ver = None THEN None ELSE Some(0),
     edns_do |-> FALSE, question |-> msg.in_query.question, answer |-> outr.answer,
     nameserver |-> outr.answer, additional |-> outr.additional,
     edns |-> EdnsData(IF msg.in_query.nsid THEN Some(Display(msg.local_ip)) ELSE None,
                       IF msg.cookie.present /\ msg.cookie.has_server
                       THEN FullCookie(msg.cookie.client, msg.cookie.server)
                       ELSE IF msg.cookie.present
                       THEN FullCookie(msg.cookie.client,
                                       Prefix(calculate_cookie(msg, msg.cookie.client, COOKIE_KEY),
                                              ServerCookieLen))
                       ELSE NoCookie,
                       NoEde)]

\* DnsListenerHandler::create_in_reply
create_in_reply(msg, outr) ==
    [unreachable |-> FALSE, qid |-> msg.in_query.qid, rd |-> FALSE, tc |-> outr.tc,
     aa |-> outr.aa, qr |-> TRUE, opcode |-> "QUERY", cd |-> outr.cd, ad |-> outr.ad,
     ra |-> outr.ra, rcode |-> outr.rcode, bufsize |-> 4096,
     edns_ver |-> IF msg.in_query.edns_ver = None THEN None ELSE Some(0),
     edns_do |-> FALSE, question |-> msg.in_query.question, answer |-> outr.answer,
     nameserver |-> outr.answer, additional |-> outr.additional,
     edns |-> EdnsData(IF msg.in_query.nsid THEN Some(Display(msg.local_ip)) ELSE None,
                       IF msg.cookie.present
                       THEN FullCookie(msg.cookie.client,
                                       Prefix(calculate_cookie(msg, msg.cookie.client, COOKIE_KEY),
                                              ServerCookieLen))
                       ELSE NoCookie,
                       NoEde)]

\* enum Error and outquery::Error: the kind, the kind of the out-query error
\* inside OutReply, and the text the error carries.
DnsError(kind, out, text) == [kind |-> kind, out |-> out, text |-> text]

AclReason == "not in acl"
DenyReason == "denied by policy"
IoText == "Network is unreachable"
MsgText == "short message"

\* The errors raised before there is a message to reply to.
ListenerErrors ==
    {DnsError("ListenError", "", IoText), DnsError("RecvError", "", IoText),
     DnsError("ParseError", "", MsgText)}

OutQueryErrors ==
    {DnsError("OutReply", "Timeout", "")}
    \cup {DnsError("OutReply", out, IoText) : out \in {"FailedToSend", "FailedToRecv"}}
    \cup {DnsError("OutReply", out, MsgText) :
             out \in {"FailedToSendMsg", "FailedToRecvMsg", "TcpConnectionError",
                      "ParseError", "InternalError"}}

\* The errors acl::DnsAclHandler::handle_query returns.
ResolverErrors ==
    {DnsError("RefusedByAcl", "", AclReason), DnsError("Denied", "", DenyReason),
     DnsError("NotAuthoritative", "", "")}
    \cup OutQueryErrors

\* The reply create_in_error builds with rcode and ede; unreachable says
\* that an unreachable!() arm was executed instead.
ErrorPkt(msg, unreachable, rcode, ede) ==
    [unreachable |-> unreachable, qid |-> msg.in_query.qid, rd |-> FALSE, tc |-> FALSE,
     aa |-> FALSE, qr |-> TRUE, opcode |-> "QUERY", cd |-> FALSE, ad |-> FALSE,
     ra |-> TRUE, rcode |-> rcode, bufsize |-> 4096,
     edns_ver |-> IF msg.in_query.edns_ver = None THEN None ELSE Some(0),
     edns_do |-> FALSE, question |-> msg.in_query.question, answer |-> <<>>,
     nameserver |-> <<>>, additional |-> <<>>,
     edns |-> EdnsData(None, NoCookie, ede)]

\* Mutant: an upstream timeout is reported as a network error.
create_in_error_timeout(msg, err) ==
    IF err.kind \in {"ListenError", "RecvError", "ParseError"}
    THEN ErrorPkt(msg, TRUE, "", NoEde)
    ELSE IF err.kind \in {"RefusedByAcl", "Denied"}
    THEN ErrorPkt(msg, FALSE, "REFUSED", Ede("PROHIBITED", err.text))
    ELSE IF err.kind = "NotAuthoritative"
    THEN ErrorPkt(msg, FALSE, "REFUSED", Ede("NOT_AUTHORITATIVE", "Not Authoritative"))
    ELSE IF err.out = "InternalError"
    THEN ErrorPkt(msg, FALSE, "SERVFAIL", Ede("OTHER", "Internal Error"))
    ELSE ErrorPkt(msg, FALSE, "SERVFAIL", Ede("NETWORK_ERROR", err.text))

\* DnsListenerHandler::create_in_error
create_in_error(msg, err) ==
    CASE err.kind = "ListenError" -> ErrorPkt(msg, TRUE, "", NoEde)
      [] err.kind = "RecvError" -> ErrorPkt(msg, TRUE, "", NoEde)
      [] err.kind = "ParseError" -> ErrorPkt(msg, TRUE, "", NoEde)
      [] err.kind = "RefusedByAcl" ->
            ErrorPkt(msg, FALSE, "REFUSED", Ede("PROHIBITED", err.text))
      [] err.kind = "Denied" ->
            ErrorPkt(msg, FALSE, "REFUSED", Ede("PROHIBITED", err.text))
      [] err.kind = "NotAuthoritative" ->
            ErrorPkt(msg, FALSE, "REFUSED", Ede("NOT_AUTHORITATIVE", "Not Authoritative"))
      [] err.kind = "OutReply" /\ err.out = "Timeout" ->
            ErrorPkt(msg, FALSE, "SERVFAIL",
                     Ede("NO_REACHABLE_AUTHORITY", "Timed out talking to upstream server"))
      [] err.kind = "OutReply" /\ err.out = "FailedToSend" ->
            ErrorPkt(msg, FALSE, "SERVFAIL", Ede("NETWORK_ERROR", err.text))
      [] err.kind = "OutReply" /\ err.out = "FailedToSendMsg" ->
            ErrorPkt(msg, FALSE, "SERVFAIL", Ede("NETWORK_ERROR", err.text))
      [] err.kind = "OutReply" /\ err.out = "FailedToRecv" ->
            ErrorPkt(msg, FALSE, "SERVFAIL", Ede("NETWORK_ERROR", err.text))
      [] err.kind = "OutReply" /\ err.out = "FailedToRecvMsg" ->
            ErrorPkt(msg, FALSE, "SERVFAIL", Ede("NETWORK_ERROR", err.text))
      [] err.kind = "OutReply" /\ err.out = "TcpConnectionError" ->
            ErrorPkt(msg, FALSE, "SERVFAIL", Ede("NETWORK_ERROR", err.text))
      [] err.kind = "OutReply" /\ err.out = "ParseError" ->
            ErrorPkt(msg, FALSE, "SERVFAIL", Ede("NETWORK_ERROR", err.text))
      [] err.kind = "OutReply" /\ err.out = "InternalError" ->
            ErrorPkt(msg, FALSE, "SERVFAIL", Ede("OTHER", "Internal Error"))

\* The values of a reply, an out reply and an error before any is made.
NoQuery == DNSQuery(0, "", None, 512, FALSE, NoCookie)
NoOutReply == OutReplyPkt("NOERROR", FALSE, FALSE, FALSE, FALSE, FALSE, <<>>, <<>>, <<>>)
NoError == DnsError("", "", "")
NoPkt == ErrorPkt(DnsMessage(NoQuery, 0, IP6B, IP6A, 0, "UDP"), FALSE, "", NoEde)

\* The queries and out replies reply synthesis is applied to.
PureQuestion == "example.com. IN AAAA"
PureQuestions == {PureQuestion, "example.org. IN MX"}
PureQids == {7, 4660}
PureAnswer == <<"example.com. 60 IN AAAA 2001:db8::80">>
PureAuthority == <<"example.com. 60 IN NS ns.example.com.">>

PureOutReplies ==
    {OutReplyPkt("NOERROR", FALSE, TRUE, FALSE, TRUE, TRUE, PureAnswer, PureAuthority, <<>>),
     OutReplyPkt("NXDOMAIN", TRUE, FALSE, TRUE, FALSE, FALSE, <<>>, PureAuthority, PureAnswer)}

\* DNSPkt::serialise_with_size: a packet whose full serialisation has n octets
\* is serialised within size octets (truncated, with tc set, when it is
\* larger).
serialise_with_size(n, size) == [octets |-> Min(n, size), tc |-> n > size]

\* Mutant: the smaller of the client's bufsize and 512 is the limit.
prepare_to_send_min(n, size) == serialise_with_size(n, Min(size, 512))

\* DnsListenerHandler::prepare_to_send
prepare_to_send(n, size) == serialise_with_size(n, Max(size, 512))

\* (x as u16).to_be_bytes()
U16BeBytes(x) == <<(x % 65536) \div 256, x % 256>>

\* run_tcp: in_reply_bytes, the length octets and the octets of the payload
\* after them, and what sock.write returns for it on a socket that takes
\* room octets.
TcpReplyBytes(serialised) ==
    [length |-> U16BeBytes(serialised.octets), payload |-> serialised.octets,
     tc |-> serialised.tc]

SockWrite(bytes, room) == Min(Len(bytes.length) + bytes.payload, room)

NoTcpReply ==
    [bufsize |-> 0, natural |-> 0, bytes |-> TcpReplyBytes(serialise_with_size(0, 0)),
     calls |-> 0, written |-> 0]

\* Mutant: the reply is charged once, not twice.
Cost_nodouble(r, q) == IF r >= q THEN r - q ELSE 0

\* Mutant: the whole reply is charged, the query is not subtracted.
Cost_nosub(r, q) == r * 2

\* The cost should_ratelimit charges for a reply of r octets to a query of q:
\* (r * 2).saturating_sub(q) in usize.  A serialised reply has at most 65535
\* octets, so the cast to u32 in IpRateLimiter::check loses nothing.
Cost(r, q) == IF (r * 2) >= q THEN (r * 2) - q ELSE 0

\* Mutant: the cookie is not looked at.
Gated_nocookie(msg, rcode) == rcode = "REFUSED"

\* The two early returns of should_ratelimit: TRUE when the limiter decides.
Gated(msg, rcode) ==
    /\ rcode = "REFUSED"
    /\ validate_cookie_key(msg, COOKIE_KEY) # "Good"

\* The in-flight request tasks are anonymous (tokio::spawn): a bag of records.
Task(pc, msg, rcode, rsize, cost, consulted) ==
    [pc |-> pc, msg |-> msg, rcode |-> rcode, rsize |-> rsize, cost |-> cost,
     consulted |-> consulted]

Tasks == BagToSet(inflight)
One(tk) == SetToBag({tk})

Spawn(tk) ==
    /\ BagCardinality(inflight) < MaxTasks
    /\ inflight' = inflight (+) One(tk)

Step(tk, pc) == inflight' = (inflight (-) One(tk)) (+) One([tk EXCEPT !.pc = pc])

Finish(tk) == inflight' = inflight (-) One(tk)

\* The last application of a pure function: its inputs and its result.
CvIdle == [fn |-> "none", msg |-> NoMsg, key |-> COOKIE_KEY, oldkey |-> COOKIE_KEY,
           status |-> "Missing", tried |-> <<>>, q |-> 0, r |-> 0, cost |-> 0,
           hash1 |-> 0, hash2 |-> 0, bucket1 |-> 0, bucket2 |-> 0,
           msg2 |-> NoMsg, client |-> <<>>, client2 |-> <<>>, mac |-> BadTag,
           mac2 |-> BadTag, outr |-> NoOutReply, err |-> NoError, reply |-> NoPkt,
           tcp |-> NoTcpReply, ra |-> <<>>,
           task |-> Task("none", NoMsg, "", 0, 0, FALSE)]

(***************************************************************************)
(* Router advertisement service (radv/mod.rs).                             *)
(***************************************************************************)
ALL_NODES == <<255, 2, 0, 0, 0, 0, 0, 0, 0, 0, 0, 0, 0, 0, 0, 1>>
SolicitorIP == <<254, 128, 0, 0, 0, 0, 0, 0, 0, 0, 0, 0, 0, 0, 0, 2>>

\* The interfaces netinfo knows, in the order get_ifindexes gives them:
\* 1 has a block in ra.interfaces; 2 has none and none of its addresses is in
\* the global addresses list; 3 has none, one of its addresses is in the
\* list, and it lacks the MULTICAST flag; 4 is as 3, with the MULTICAST flag.
Ifindexes == <<1, 2, 3, 4>>
IfConfigured(ifidx) == ifidx = 1
IfMulticast(ifidx) == ifidx \in {1, 2, 4}

\* The IPv6 address of interface ifidx, 2001:db8:<ifidx>::1, and what
\* netinfo can give for the prefixes of the interface: nothing, no address,
\* the IPv4 address only, or the IPv4 and the IPv6 address, each with its
\* prefix length.
IfAddr6(ifidx) == <<32, 1, 13, 184, 0, ifidx, 0, 0, 0, 0, 0, 0, 0, 0, 0, 1>>
IfPrefixes(ifidx) ==
    {None, Some(<<>>), Some(<< <<IP4B, 24>> >>),
     Some(<< <<IP4B, 24>>, <<IfAddr6(ifidx), 64>> >>)}

\* The addresses list of the configuration: the prefixes of interfaces 3 and 4.
ConfAddresses == {<<IfAddr6(3), 64>>, <<IfAddr6(4), 64>>}

\* radv_sent_packets is counted up to MaxTx.
MaxTx == 2

\* A socket address of the raw ICMPv6 socket.
NetAddr(ip, scope_id) == [ip |-> ip, scope_id |-> scope_id]

\* A result of the RA service's functions: Ok, Err(err) or a panic, with the
\* advertisement built and the send attempted, if any.
RaResult(res, err, adv, sent) == [res |-> res, err |-> err, adv |-> adv, sent |-> sent]

\* A received message: what it parses to, the interface it arrived on and
\* the address it came from.
RecvMsg(kind, local_intf, address) ==
    [kind |-> kind, local_intf |-> local_intf, address |-> address]

\* The service before run is called: its two tasks, the tasks whose exit run
\* has seen, the last message received with the result of handling it and
\* what was logged for it, the interface the unsolicited loop handled last,
\* whether its flags were known, the result of send_unsolicited for it and
\* what was logged, and radv_sent_packets.
NoRecv == RecvMsg("none", None, None)
NoResult == RaResult("none", "", None, None)
RaStart ==
    [run |-> "start", sol |-> "idle", unsol |-> "idle", todo |-> <<>>, seen |-> {},
     rm |-> NoRecv, solicit |-> NoResult, sol_log |-> <<>>,
     idx |-> 0, flags |-> FALSE, unsolicited |-> NoResult, unsol_log |-> <<>>, tx |-> 0]

(***************************************************************************)
(* The DNS service: the erbium-dns process, DnsService::run, the listener  *)
(* handler and the tasks it spawns, up to the reply being built.           *)
(***************************************************************************)
MaxConns == 1

\* A spawned task that has no reply yet: a UDP datagram or a TCP connection.
\* kind is what the octets received are ("ok" parses and has its addresses,
\* "unparseable" does not parse, "nolocal" and "noaddr" lack the local or the
\* peer address), cookie is the query's cookie, err is the error of the
\* resolver, reads counts the framed requests read from the connection.
Conn(protocol, pc, kind, cookie, err, reads) ==
    [protocol |-> protocol, pc |-> pc, kind |-> kind, cookie |-> cookie, err |-> err,
     reads |-> reads]

\* The result of one call of run_udp or run_tcp_listener: the Result
\* returned, what happened, and the task spawned, if any.
Iteration(result, event, spawned) ==
    [result |-> result, event |-> event, spawned |-> spawned]

\* What the octets of a datagram or of a framed request can be.
Payloads ==
    {<<"unparseable", NoCookie>>}
    \cup {<<"ok", cookie>> : cookie \in QueryCookies(IP6B, IP4A)}

\* What recv_msg gives: an error, or a datagram with or without its addresses.
UdpReceived ==
    {[io |-> e, kind |-> "", cookie |-> NoCookie] : e \in {"WouldBlock", "Interrupted", "Other"}}
    \cup {[io |-> "Ok", kind |-> p[1], cookie |-> p[2]] : p \in Payloads}
    \cup {[io |-> "Ok", kind |-> k, cookie |-> NoCookie] : k \in {"nolocal", "noaddr"}}

\* Mutant: WouldBlock is returned as a receive error.
run_udp_wouldblock(rm) ==
    IF rm.io = "Ok"
    THEN Iteration("Ok", "datagram",
                   Some(Conn("UDP", "spawned", rm.kind, rm.cookie, NoError, 0)))
    ELSE IF rm.io = "Interrupted"
    THEN Iteration("Ok", rm.io, None)
    ELSE Iteration("RecvError", rm.io, None)

\* DnsListenerHandler::run_udp, with what recv_msg gave.
run_udp(rm) ==
    IF rm.io = "Ok"
    THEN Iteration("Ok", "datagram",
                   Some(Conn("UDP", "spawned", rm.kind, rm.cookie, NoError, 0)))
    ELSE IF rm.io = "WouldBlock"
    THEN Iteration("Ok", rm.io, None)
    ELSE IF rm.io = "Interrupted"
    THEN Iteration("Ok", rm.io, None)
    ELSE Iteration("RecvError", rm.io, None)

\* DnsListenerHandler::run_tcp_listener, with what accept gave.
run_tcp_listener(accepted) ==
    IF accepted
    THEN Iteration("Ok", "connection",
                   Some(Conn("TCP", "readlen", "", NoCookie, NoError, 0)))
    ELSE Iteration("ListenError", "accept failed", None)

\* The start of a spawned request task, up to the match on build_dns_message:
\* the unwraps of the addresses panic, a parse error ends the task.
TaskStart(c) ==
    IF c.kind \in {"nolocal", "noaddr"} THEN "panic"
    ELSE IF c.kind = "unparseable" THEN "parse fail"
    ELSE "resolve"

\* The DnsMessage of a task whose octets parsed.
ConnMsg(c) ==
    DnsMessage(DNSQuery(7, PureQuestion, None, 1232, FALSE, c.cookie),
               QuerySize, IP6B, IP4A, 5353, c.protocol)

\* recv_in_query after handle_query returned: the reply of the task.
InReply(c) ==
    IF c.err = NoError
    THEN create_in_reply(ConnMsg(c), NoOutReply)
    ELSE create_in_error(ConnMsg(c), c.err)

\* The process before go has run.  failed and resumed remember that a request
\* task has ended in an error or a panic, and that the listener has completed
\* a receive or an accept after that.
SvcStart ==
    [proc |-> "start", startup |-> "", status |-> None, run |-> "idle", result |-> "",
     event |-> "", failed |-> FALSE, resumed |-> FALSE]

(***************************************************************************)
(* The requests one by one: what each datagram and each connection was    *)
(* received with, what its task called and what it sent.                   *)
(***************************************************************************)
MaxReqs == 2

\* dns_in_query_result, by protocol and result; "status" stands for the
\* results in_reply.status() gives.
MetricLabels ==
    {<<"UDP", "parse fail">>, <<"TCP", "parse fail">>, <<"TCP", "send fail">>,
     <<"UDP", "status">>, <<"TCP", "status">>}
NoMetrics == [l \in MetricLabels |-> 0]
Inc(m, label) == [m EXCEPT ![label] = @ + 1]

SocketAddr(ip, port) == [ip |-> ip, port |-> port]

\* A request: the protocol, where its task is, whether its octets parse, the
\* local address and the peer address it was received with (an Option
\* each), what the reads of a connection gave, the calls of the resolver and
\* of should_ratelimit, the packets sent, how the task ended, and the rcode
\* of its reply once it has one.
Request(protocol, pc, parses, local_ip, address, read, resolver, limiter, sent, end) ==
    [protocol |-> protocol, pc |-> pc, parses |-> parses, local_ip |-> local_ip,
     address |-> address, read |-> read, resolver |-> resolver, limiter |-> limiter,
     sent |-> sent, end |-> end, rcode |-> ""]

\* What recv_msg gives with a datagram: the destination address from the
\* control message and the peer address, either of which may be missing.
UdpDatagrams ==
    {[parses |-> p, local_ip |-> a[1], address |-> a[2]] :
        p \in BOOLEAN,
        a \in {<<Some(IP4B), Some(SocketAddr(IP4A, 5353))>>,
               <<Some(IP6B), Some(SocketAddr(IP6A, 53000))>>,
               <<None, Some(SocketAddr(IP4A, 5353))>>,
               <<Some(IP6B), None>>}}

\* What accept gives: the peer address, and the local address local_addr()
\* will give, if any.
TcpSockets ==
    {[local_ip |-> Some(IP6B), address |-> Some(SocketAddr(IP6A, 53000))],
     [local_ip |-> None, address |-> Some(SocketAddr(IP4A, 5353))]}

\* A packet on the wire: the source address asked for and the destination.
Packet(from, to) == [from |-> from, to |-> to]

\* The hashes RandomState gives: the two of an address are equal or differ,
\* and the first is held at one value of HashVals.
Hashers ==
    {h \in [Seeds \X RemoteIPs -> HashVals] : \A ip \in RemoteIPs : h[<<SEED1, ip>>] = 1}

Init ==
    /\ now = 0
    /\ buckets = [i \in BucketIds |-> NewBucket]
    /\ hasher \in Hashers
    /\ inflight = EmptyBag
    /\ sentCost = [ip \in RemoteIPs |-> 0]
    /\ wstart = 0
    /\ overlap = [ip \in RemoteIPs |-> FALSE]
    /\ cv = CvIdle
    /\ conns = EmptyBag
    /\ svc = SvcStart
    /\ radv = RaStart
    /\ reqs = <<>>
    /\ metrics = NoMetrics

\* The reply to msg is built (recv_in_query, serialise); with gate, the
\* synchronous head of should_ratelimit runs, up to the first lock of check.
Reply(msg, rcode, rsize, gate) ==
    LET limited == gate /\ Gated(msg, rcode)
    IN Task(IF limited THEN "probe1"
            ELSE IF msg.protocol = "UDP" THEN "send" ELSE "write",
            msg, rcode, rsize,
            IF limited THEN Cost(rsize, msg.in_size) ELSE 0,
            limited)

ReplySize(rcode) == IF rcode = "REFUSED" THEN RefusedSize ELSE RefusedSize + 1

\* The requests received are counted up to MaxQueries: those counted in
\* dns_in_query_result as a parse failure or with the status of their
\* reply, and those whose task has not counted yet.
MaxQueries == 4

PreReply(tk) == tk.pc \in {"readlen", "readbody", "spawned", "resolve"}

Received ==
    metrics[<<"UDP", "status">>] + metrics[<<"TCP", "status">>]
    + metrics[<<"UDP", "parse fail">>] + metrics[<<"TCP", "parse fail">>]
    + BagCardinality([tk \in {t \in Tasks : PreReply(t)} |-> inflight[tk]])
    + BagCardinality(conns)

\* run_udp: recv_msg gives a datagram and a task is spawned for it.
UdpQuery ==
    /\ Received < MaxQueries
    /\ \E remote_ip \in RemoteIPs, local_ip \in LocalIPs :
         \E cookie \in QueryCookies(local_ip, remote_ip) :
            Spawn(Task("spawned",
                       build_dns_message(QuerySize, cookie, local_ip, remote_ip, "UDP"),
                       "", 0, 0, FALSE))
    /\ UNCHANGED <<now, buckets, hasher, sentCost, wstart, overlap, cv, conns, svc, radv, reqs, metrics>>

\* run_tcp_listener: accept gives a connection and run_tcp is spawned for
\* it; it waits for the two octets of the length.
TcpQuery ==
    /\ Received < MaxQueries
    /\ \E remote_ip \in RemoteIPs, local_ip \in LocalIPs :
            Spawn(Task("readlen", build_dns_message(0, NoCookie, local_ip, remote_ip, "TCP"),
                       "", 0, 0, FALSE))
    /\ UNCHANGED <<now, buckets, hasher, sentCost, wstart, overlap, cv, conns, svc, radv, reqs, metrics>>

\* run_tcp: sock.read gives the length, and run_tcp waits for the body; a
\* failed or short read ends it.
ReadLength(tk) ==
    /\ tk.pc = "readlen"
    /\ \/ Step(tk, "readbody")
       \/ Finish(tk)
    /\ UNCHANGED <<now, buckets, hasher, sentCost, wstart, overlap, cv, conns, svc, radv, reqs, metrics>>

\* run_tcp: read_exact gives the body and the request task is spawned with
\* it; a failed read ends run_tcp.
ReadBody(tk) ==
    /\ tk.pc = "readbody"
    /\ \/ \E cookie \in QueryCookies(tk.msg.local_ip, tk.msg.remote_ip) :
             inflight' = (inflight (-) One(tk))
                         (+) One([tk EXCEPT !.pc = "spawned", !.msg.in_size = QuerySize,
                                            !.msg.cookie = cookie])
       \/ Finish(tk)
    /\ UNCHANGED <<now, buckets, hasher, sentCost, wstart, overlap, cv, conns, svc, radv, reqs, metrics>>

\* The spawned task runs: build_dns_message, then recv_in_query takes the
\* read guard of the handler and calls handle_query, in which it waits.
RecvInQuery(tk) ==
    /\ tk.pc = "spawned"
    /\ Step(tk, "resolve")
    /\ UNCHANGED <<now, buckets, hasher, sentCost, wstart, overlap, cv, conns, svc, radv, reqs, metrics>>

\* Mutant: the TCP task gates its reply as the UDP task does.
HandleQueryReturns_gated(tk) ==
    /\ tk.pc = "resolve"
    /\ \E rcode \in Rcodes :
          inflight' = (inflight (-) One(tk))
                      (+) One(Reply(tk.msg, rcode, ReplySize(rcode), TRUE))
    /\ metrics' = Inc(metrics, <<tk.msg.protocol, "status">>)
    /\ UNCHANGED <<now, buckets, hasher, sentCost, wstart, overlap, cv, conns, svc, radv, reqs>>

\* handle_query returns: recv_in_query builds the reply and counts it, the
\* task serialises it and, on UDP, runs should_ratelimit up to the first
\* lock of check.
HandleQueryReturns(tk) ==
    /\ tk.pc = "resolve"
    /\ \E rcode \in Rcodes :
          inflight' = (inflight (-) One(tk))
                      (+) One(Reply(tk.msg, rcode, ReplySize(rcode), tk.msg.protocol = "UDP"))
    /\ metrics' = Inc(metrics, <<tk.msg.protocol, "status">>)
    /\ UNCHANGED <<now, buckets, hasher, sentCost, wstart, overlap, cv, conns, svc, radv, reqs>>

\* Mutant: a failed first probe denies at once.
Probe1_nofallback(tk) ==
    /\ tk.pc = "probe1"
    /\ Step(tk, IF BucketCheck(buckets[Bucket1(tk.msg.remote_ip)], now, tk.cost)
                THEN "deplete1" ELSE "drop")
    /\ UNCHANGED <<now, buckets, hasher, sentCost, wstart, overlap, cv, conns, svc, radv, reqs, metrics>>

\* IpRateLimiter::check, probe of bucket1 under its read lock.
Probe1(tk) ==
    /\ tk.pc = "probe1"
    /\ Step(tk, IF BucketCheck(buckets[Bucket1(tk.msg.remote_ip)], now, tk.cost)
                THEN "deplete1" ELSE "probe2")
    /\ UNCHANGED <<now, buckets, hasher, sentCost, wstart, overlap, cv, conns, svc, radv, reqs, metrics>>

\* Mutant: the depletion is forgotten.
Deplete1_forgotten(tk) ==
    /\ tk.pc = "deplete1"
    /\ Step(tk, "send")
    /\ UNCHANGED <<now, buckets, hasher, sentCost, wstart, overlap, cv, conns, svc, radv, reqs, metrics>>

\* IpRateLimiter::check, depletion of bucket1 under its write lock.
Deplete1(tk) ==
    LET i == Bucket1(tk.msg.remote_ip)
    IN /\ tk.pc = "deplete1"
       /\ buckets' = [buckets EXCEPT ![i] = BucketDeplete(buckets[i], now, tk.cost)]
       /\ Step(tk, "send")
       /\ UNCHANGED <<now, hasher, sentCost, wstart, overlap, cv, conns, svc, radv, reqs, metrics>>

\* IpRateLimiter::check, probe of bucket2 under its read lock.
Probe2(tk) ==
    /\ tk.pc = "probe2"
    /\ Step(tk, IF BucketCheck(buckets[Bucket2(tk.msg.remote_ip)], now, tk.cost)
                THEN "deplete2" ELSE "drop")
    /\ UNCHANGED <<now, buckets, hasher, sentCost, wstart, overlap, cv, conns, svc, radv, reqs, metrics>>

\* Mutant: the second branch depletes both buckets.
Deplete2_both(tk) ==
    LET i == Bucket1(tk.msg.remote_ip)
        j == Bucket2(tk.msg.remote_ip)
    IN /\ tk.pc = "deplete2"
       /\ buckets' = [buckets EXCEPT ![i] = BucketDeplete(buckets[i], now, tk.cost),
                                     ![j] = BucketDeplete(buckets[j], now, tk.cost)]
       /\ Step(tk, "send")
       /\ UNCHANGED <<now, hasher, sentCost, wstart, overlap, cv, conns, svc, radv, reqs, metrics>>

\* IpRateLimiter::check, depletion of bucket2 under its write lock.
Deplete2(tk) ==
    LET i == Bucket2(tk.msg.remote_ip)
    IN /\ tk.pc = "deplete2"
       /\ buckets' = [buckets EXCEPT ![i] = BucketDeplete(buckets[i], now, tk.cost)]
       /\ Step(tk, "send")
       /\ UNCHANGED <<now, hasher, sentCost, wstart, overlap, cv, conns, svc, radv, reqs, metrics>>

\* run_udp: should_ratelimit returned false, the reply is sent.
UdpSend(tk) ==
    /\ tk.pc = "send"
    /\ Finish(tk)
    /\ UNCHANGED <<now, buckets, hasher, sentCost, wstart, overlap, cv, conns, svc, radv, reqs, metrics>>

\* run_udp: should_ratelimit returned true, the reply is not sent.
UdpDrop(tk) ==
    /\ tk.pc = "drop"
    /\ Finish(tk)
    /\ UNCHANGED <<now, buckets, hasher, sentCost, wstart, overlap, cv, conns, svc, radv, reqs, metrics>>

\* Mutant: the connection is kept and the next request is read from it.
TcpWrite_keepalive(tk) ==
    /\ tk.pc = "write"
    /\ Finish(tk)
    /\ conns' = conns (+) One(Conn("TCP", "readlen", "", NoCookie, NoError, 1))
    /\ UNCHANGED <<now, buckets, hasher, sentCost, wstart, overlap, cv, svc, radv, reqs, metrics>>

\* run_tcp: the framed reply is written.
TcpWrite(tk) ==
    /\ tk.pc = "write"
    /\ Finish(tk)
    /\ UNCHANGED <<now, buckets, hasher, sentCost, wstart, overlap, cv, conns, svc, radv, reqs, metrics>>

\* bucket::RealTimeClock advances.
Tick ==
    /\ now < MaxTime
    /\ now' = now + 1
    /\ UNCHANGED <<buckets, hasher, inflight, sentCost, wstart, overlap, cv, conns, svc, radv, reqs, metrics>>

Next ==
    \/ UdpQuery
    \/ TcpQuery
    \/ \E tk \in Tasks : ReadLength(tk)
    \/ \E tk \in Tasks : ReadBody(tk)
    \/ \E tk \in Tasks : RecvInQuery(tk)
    \/ \E tk \in Tasks : HandleQueryReturns(tk)
    \/ \E tk \in Tasks : Probe1(tk)
    \/ \E tk \in Tasks : Deplete1(tk)
    \/ \E tk \in Tasks : Probe2(tk)
    \/ \E tk \in Tasks : Deplete2(tk)
    \/ \E tk \in Tasks : UdpSend(tk)
    \/ \E tk \in Tasks : UdpDrop(tk)
    \/ \E tk \in Tasks : TcpWrite(tk)
    \/ Tick

Spec == Init /\ [][Next]_vars

(***************************************************************************)
(* The limiter under REFUSED traffic without a valid cookie, with the cost *)
(* of the replies sent counted over an observation window.                 *)
(***************************************************************************)
\* The window is observed up to MaxWindowTime, over MaxRefused queries: the
\* buckets refill between a depletion and the window, and both are emptied
\* in it.
MaxWindowTime == 3
MaxRefused == 5

\* A task is inside the limiter from its first probe until its reply is sent.
InLimiter(tk) == tk.pc \in {"probe1", "deplete1", "probe2", "deplete2", "send"}

\* Two request tasks of ip are inside the limiter at once.
Overlapping(bag, ip) ==
    \E tk \in BagToSet(bag) :
        /\ InLimiter(tk) /\ tk.msg.remote_ip = ip
        /\ \/ CopiesIn(tk, bag) > 1
           \/ \E other \in BagToSet(bag) :
                 other # tk /\ InLimiter(other) /\ other.msg.remote_ip = ip

\* run_udp: a query without a cookie is received and its task is spawned.
RefusedQuery ==
    /\ Received < MaxRefused
    /\ \E remote_ip \in RemoteIPs, local_ip \in LocalIPs :
            Spawn(Task("spawned",
                       build_dns_message(QuerySize, NoCookie, local_ip, remote_ip, "UDP"),
                       "", 0, 0, FALSE))
    /\ UNCHANGED <<now, buckets, hasher, sentCost, wstart, overlap, cv, conns, svc, radv, reqs, metrics>>

\* handle_query refuses the query: the REFUSED reply is built and counted
\* and the task enters the limiter.
RefusedReply(tk) ==
    /\ tk.pc = "resolve"
    /\ inflight' = (inflight (-) One(tk))
                   (+) One(Reply(tk.msg, "REFUSED", ReplySize("REFUSED"), TRUE))
    /\ metrics' = Inc(metrics, <<tk.msg.protocol, "status">>)
    /\ overlap' = [ip \in RemoteIPs |-> overlap[ip] \/ Overlapping(inflight', ip)]
    /\ UNCHANGED <<now, buckets, hasher, sentCost, wstart, cv, conns, svc, radv, reqs>>

\* run_udp: should_ratelimit returned false, the reply is sent; its cost is
\* added to the window's count.
CountedSend(tk) ==
    /\ tk.pc = "send"
    /\ Finish(tk)
    /\ sentCost' = [sentCost EXCEPT ![tk.msg.remote_ip] = @ + tk.cost]
    /\ UNCHANGED <<now, buckets, hasher, wstart, overlap, cv, conns, svc, radv, reqs, metrics>>

\* bucket::RealTimeClock advances while the window is observed.
WindowTick ==
    /\ now < MaxWindowTime
    /\ now' = now + 1
    /\ UNCHANGED <<buckets, hasher, inflight, sentCost, wstart, overlap, cv, conns, svc, radv, reqs, metrics>>

\* A new observation window starts now, when a reply is about to be sent: a
\* window that starts earlier is longer and the same replies are sent in it.
WindowStart ==
    /\ \E tk \in Tasks : tk.pc = "send"
    /\ wstart # now \/ \E ip \in RemoteIPs : sentCost[ip] # 0
    /\ wstart' = now
    /\ sentCost' = [ip \in RemoteIPs |-> 0]
    /\ UNCHANGED <<now, buckets, hasher, inflight, overlap, cv, conns, svc, radv, reqs, metrics>>

\* The listener has been constructed; the buckets of an address are those
\* hash_ip gives.
InitWindow ==
    /\ now = 0
    /\ buckets = [i \in BucketIds |-> NewBucket]
    /\ hasher = DefaultHasher
    /\ inflight = EmptyBag
    /\ sentCost = [ip \in RemoteIPs |-> 0]
    /\ wstart = 0
    /\ overlap = [ip \in RemoteIPs |-> FALSE]
    /\ cv = CvIdle
    /\ conns = EmptyBag
    /\ svc = SvcStart
    /\ radv = RaStart
    /\ reqs = <<>>
    /\ metrics = NoMetrics

NextWindow ==
    \/ RefusedQuery
    \/ \E tk \in Tasks : RecvInQuery(tk)
    \/ \E tk \in Tasks : RefusedReply(tk)
    \/ \E tk \in Tasks : Probe1(tk)
    \/ \E tk \in Tasks : Deplete1(tk)
    \/ \E tk \in Tasks : Probe2(tk)
    \/ \E tk \in Tasks : Deplete2(tk)
    \/ \E tk \in Tasks : CountedSend(tk)
    \/ \E tk \in Tasks : UdpDrop(tk)
    \/ WindowTick
    \/ WindowStart

SpecWindow == InitWindow /\ [][NextWindow]_vars

(***************************************************************************)
(* The pure functions, applied to inputs drawn from bounded sets.          *)
(***************************************************************************)
CookieClients == {ClientCookieA, ClientCookieB}

CookieTags ==
    {ServerCookie(c, k, l, r) : c \in CookieClients, k \in Keys,
                                l \in AllLocalIPs, r \in AllRemoteIPs}
    \cup {BadTag}

CookieValues ==
    {NoCookie}
    \cup {ClientOnly(c) : c \in CookieClients}
    \cup {FullCookie(c, s) : c \in CookieClients, s \in CookieTags}

HashSamples == {0, 1, 2, 127, 253, 254, 255, 256, 257, 509, 510, 511, 512, 65535}

InitPure ==
    /\ Init
    /\ hasher = [x \in Seeds \X RemoteIPs |-> 1]

\* validate_cookie is applied to a message under a new and an old key.
ApplyValidateCookie ==
    /\ cv.fn = "none"
    /\ \E cookie \in CookieValues, l \in AllLocalIPs, r \in AllRemoteIPs,
          key \in Keys, oldkey \in Keys :
          LET msg == build_dns_message(QuerySize, cookie, l, r, "UDP")
              res == validate_cookie(msg, key, oldkey)
          IN cv' = [CvIdle EXCEPT !.fn = "validate_cookie", !.msg = msg, !.key = key,
                                  !.oldkey = oldkey, !.status = res.status,
                                  !.tried = res.tried]
    /\ UNCHANGED <<now, buckets, hasher, inflight, sentCost, wstart, overlap, conns, svc, radv, reqs, metrics>>

\* should_ratelimit computes the cost of a reply of r octets to q octets.
ApplyCost ==
    /\ cv.fn = "none"
    /\ \E q \in 0..MaxSize, r \in 0..MaxSize :
          cv' = [CvIdle EXCEPT !.fn = "cost", !.q = q, !.r = r, !.cost = Cost(r, q)]
    /\ UNCHANGED <<now, buckets, hasher, inflight, sentCost, wstart, overlap, conns, svc, radv, reqs, metrics>>

\* check selects the two buckets from the two hashes of an address.
ApplyBuckets ==
    /\ cv.fn = "none"
    /\ \E hash1 \in HashSamples, hash2 \in HashSamples :
          cv' = [CvIdle EXCEPT !.fn = "buckets", !.hash1 = hash1, !.hash2 = hash2,
                                  !.bucket1 = bucket1(hash1),
                                  !.bucket2 = bucket2(hash1, hash2)]
    /\ UNCHANGED <<now, buckets, hasher, inflight, sentCost, wstart, overlap, conns, svc, radv, reqs, metrics>>

\* Local addresses whose text has a dotted tail, a run of zeros that is not
\* the first one, and no run at all.
IP6M == <<0, 0, 0, 0, 0, 0, 0, 0, 0, 0, 255, 255, 192, 0, 2, 53>>
IP6E == <<32, 1, 0, 0, 0, 1, 0, 0, 0, 0, 0, 0, 0, 0, 0, 1>>
IP6F == <<32, 1, 13, 184, 0, 1, 0, 2, 0, 3, 0, 4, 0, 5, 10, 188>>
NsidLocalIPs == AllLocalIPs \cup {IP6M, IP6E, IP6F}

\* create_in_reply is applied to a message and the resolver's reply.
ApplyCreateInReply ==
    /\ cv.fn = "none"
    /\ \E cookie \in CookieValues, l \in NsidLocalIPs, r \in AllRemoteIPs,
          nsid \in BOOLEAN, edns_ver \in {None, Some(1)}, outr \in PureOutReplies,
          qid \in PureQids, question \in PureQuestions :
          LET msg == DnsMessage(DNSQuery(qid, question, edns_ver, 1232, nsid, cookie),
                                QuerySize, l, r, 5353, "UDP")
          IN cv' = [CvIdle EXCEPT !.fn = "create_in_reply", !.msg = msg, !.outr = outr,
                                  !.reply = create_in_reply(msg, outr)]
    /\ UNCHANGED <<now, buckets, hasher, inflight, sentCost, wstart, overlap, conns, svc, radv, reqs, metrics>>

\* create_in_error is applied to a message and an error of the resolver.
ApplyCreateInError ==
    /\ cv.fn = "none"
    /\ \E cookie \in {NoCookie, ClientOnly(ClientCookieA)}, l \in AllLocalIPs,
          edns_ver \in {None, Some(1)}, err \in ResolverErrors,
          qid \in PureQids, question \in PureQuestions :
          LET msg == DnsMessage(DNSQuery(qid, question, edns_ver, 1232, FALSE, cookie),
                                QuerySize, l, IP4A, 5353, "UDP")
          IN cv' = [CvIdle EXCEPT !.fn = "create_in_error", !.msg = msg, !.err = err,
                                  !.reply = create_in_error(msg, err)]
    /\ UNCHANGED <<now, buckets, hasher, inflight, sentCost, wstart, overlap, conns, svc, radv, reqs, metrics>>

\* Two addresses whose octets, put after those of IP4B and before those of
\* IP4A, give the same string: IP6C || IP4A = IP4B || IP6D.
IP6C == IP4B \o <<32, 1, 13, 184, 0, 0, 0, 0, 0, 0, 0, 9>>
IP6D == <<32, 1, 13, 184, 0, 0, 0, 0, 0, 0, 0, 9>> \o IP4A

MacLocalIPs == AllLocalIPs \cup {IP6C}
MacRemoteIPs == AllRemoteIPs \cup {IP6D}

\* calculate_cookie is applied to two messages under one key.
ApplyCalculateCookie ==
    /\ cv.fn = "none"
    /\ \E key \in Keys, c1 \in CookieClients, c2 \in CookieClients,
          l1 \in MacLocalIPs, l2 \in MacLocalIPs, r1 \in MacRemoteIPs, r2 \in MacRemoteIPs,
          port \in {5353, 5354}, qid \in {7, 8}, protocol \in {"UDP", "TCP"} :
          LET msg == DnsMessage(DNSQuery(7, PureQuestion, None, 1232, FALSE, ClientOnly(c1)),
                                QuerySize, l1, r1, 5353, "UDP")
              msg2 == DnsMessage(DNSQuery(qid, PureQuestion, None, 1232, FALSE, ClientOnly(c2)),
                                 QuerySize, l2, r2, port, protocol)
          IN cv' = [CvIdle EXCEPT !.fn = "calculate_cookie", !.key = key,
                                  !.msg = msg, !.client = c1,
                                  !.mac = calculate_cookie(msg, c1, key),
                                  !.msg2 = msg2, !.client2 = c2,
                                  !.mac2 = calculate_cookie(msg2, c2, key)]
    /\ UNCHANGED <<now, buckets, hasher, inflight, sentCost, wstart, overlap, conns, svc, radv, reqs, metrics>>

\* The sizes of replies, of the client's bufsize and of the room in the
\* socket's send buffer.
ReplyOctets == {40, 512, 513, 2000, 4097, 65535, 70000}
BufSizes == {0, 512, 1232, 4096, 65535}
SendRooms == {1, 2002, 16384, 70002}

\* The spawned task of run_tcp serialises its reply and writes it.
ApplyTcpReply ==
    /\ cv.fn = "none"
    /\ \E n \in ReplyOctets, bufsize \in BufSizes, room \in SendRooms :
          LET bytes == TcpReplyBytes(prepare_to_send(n, bufsize))
          IN cv' = [CvIdle EXCEPT !.fn = "run_tcp reply",
                                  !.tcp = [bufsize |-> bufsize, natural |-> n,
                                           bytes |-> bytes, calls |-> 1,
                                           written |-> SockWrite(bytes, room)]]
    /\ UNCHANGED <<now, buckets, hasher, inflight, sentCost, wstart, overlap, conns, svc, radv, reqs, metrics>>

(***************************************************************************)
(* The content of a router advertisement (radv/mod.rs).                    *)
(***************************************************************************)
\* RFC 4861 section 6.2.1, in seconds.
DEFAULT_MAX_RTR_ADV_INTERVAL == 600
ADV_DEFAULT_LIFETIME == 3 * DEFAULT_MAX_RTR_ADV_INTERVAL

\* config::ConfigValue<T> and the three of its methods that the
\* advertisement uses.
NotSpecified == [tag |-> "NotSpecified"]
DontSet == [tag |-> "DontSet"]
Value(v) == [tag |-> "Value", v |-> v]

unwrap_or(x, default) ==
    CASE x.tag = "NotSpecified" -> Some(default)
      [] x.tag = "DontSet" -> None
      [] x.tag = "Value" -> Some(x.v)

always_unwrap_or(x, default) == IF x.tag = "Value" THEN x.v ELSE default

ConfigValue_or(x, other) ==
    CASE x.tag = "NotSpecified" -> other
      [] x.tag = "DontSet" -> None
      [] x.tag = "Value" -> Some(x.v)

UNSPECIFIED == <<0, 0, 0, 0, 0, 0, 0, 0, 0, 0, 0, 0, 0, 0, 0, 0>>
LOCALHOST == <<0, 0, 0, 0, 0, 0, 0, 0, 0, 0, 0, 0, 0, 0, 0, 1>>

v6_scope(ip6) ==
    LET segments == Segments(ip6)
    IN IF segments[1] \div 512 = 126 THEN "UniqueLocalAddress"
       ELSE IF ip6 = LOCALHOST THEN "Loopback"
       ELSE IF ip6 = UNSPECIFIED THEN "Unspecified"
       ELSE IF /\ segments[1] = 65152
               /\ segments[2] = 0
               /\ segments[3] = 0
               /\ segments[4] = 0 THEN "Link"
       ELSE IF segments[1] \div 256 = 255 THEN "Multicast"
       ELSE "Global"

\* Ord of integers and, octet by octet, of addresses.
IntCmp(x, y) == IF x < y THEN "Less" ELSE IF x > y THEN "Greater" ELSE "Equal"

RECURSIVE Ipv6Addr_cmp(_, _)
Ipv6Addr_cmp(x, y) ==
    IF x = <<>> THEN "Equal"
    ELSE IF Head(x) # Head(y) THEN IntCmp(Head(x), Head(y))
    ELSE Ipv6Addr_cmp(Tail(x), Tail(y))

\* iter().position(..).unwrap_or(usize::MIN), counted from 0.
ScopePosition(scopes, scope) ==
    IF \E i \in 1..Len(scopes) : scopes[i] = scope
    THEN (CHOOSE i \in 1..Len(scopes) :
             /\ scopes[i] = scope
             /\ \A j \in 1..(i - 1) : scopes[j] # scope) - 1
    ELSE 0

\* A comparison that puts Global above UniqueLocalAddress.
ScopeSorter_cmp_globalfirst(self, other) ==
    LET scopes == <<"Unspecified", "Link", "UniqueLocalAddress", "Global">>
        ret == IntCmp(ScopePosition(scopes, v6_scope(self)),
                      ScopePosition(scopes, v6_scope(other)))
    IN IF ret = "Equal" THEN Ipv6Addr_cmp(self, other) ELSE ret

ScopeSorter_cmp(self, other) ==
    LET scopes == <<"Unspecified", "Link", "Global", "UniqueLocalAddress">>
        sscope == v6_scope(self)
        oscope == v6_scope(other)
        sscopepos == ScopePosition(scopes, sscope)
        oscopepos == ScopePosition(scopes, oscope)
        ret == IntCmp(sscopepos, oscopepos)
    IN IF ret = "Equal" THEN Ipv6Addr_cmp(self, other) ELSE ret

\* Iterator::max: the last of the greatest elements, None of nothing.
RECURSIVE MaxFold(_, _)
MaxFold(x, rest) ==
    IF rest = <<>> THEN x
    ELSE MaxFold(IF ScopeSorter_cmp(x, Head(rest)) = "Greater" THEN x ELSE Head(rest),
                 Tail(rest))

IterMax(addrs) == IF addrs = <<>> THEN None ELSE Some(MaxFold(Head(addrs), Tail(addrs)))

\* The "best" address of an interface, from its prefixes of both families.
build_announcement_self6(prefixes) ==
    IterMax(SelectSeq(prefixes, LAMBDA addr : Len(addr) = 16))

\* A lifetime that announces a default router on the interface of the
\* default route itself.
build_announcement_lifetime_sameif(intf_lifetime, route, ifidx) ==
    CASE intf_lifetime.tag = "NotSpecified" ->
             IF route # None /\ route[1].gwif = Some(ifidx) THEN ADV_DEFAULT_LIFETIME ELSE 0
      [] intf_lifetime.tag = "Value" -> intf_lifetime.v
      [] intf_lifetime.tag = "DontSet" -> 0

\* The lifetime that build_announcement hands to build_announcement_pure;
\* route is the result of get_ipv6_default_route.
build_announcement_lifetime(intf_lifetime, route, ifidx) ==
    CASE intf_lifetime.tag = "NotSpecified" ->
             IF route # None
             THEN IF route[1].gwif # Some(ifidx) THEN ADV_DEFAULT_LIFETIME ELSE 0
             ELSE 0
      [] intf_lifetime.tag = "Value" -> intf_lifetime.v
      [] intf_lifetime.tag = "DontSet" -> 0

NDOption(type, value) == [type |-> type, value |-> value]

find_option(options, type) == SelectSeq(options, LAMBDA o : o.type = type)

RECURSIVE Rdnss6(_, _)
Rdnss6(dns_servers, self6) ==
    IF dns_servers = <<>> THEN <<>>
    ELSE LET ip == Head(dns_servers)
             rest == Rdnss6(Tail(dns_servers), self6)
         IN IF Len(ip) = 16 /\ ip = UNSPECIFIED THEN <<self6>> \o rest
            ELSE IF Len(ip) = 16 THEN <<ip>> \o rest
            ELSE rest

RECURSIVE PrefixOptions(_)
PrefixOptions(prefixes) ==
    IF prefixes = <<>> THEN <<>>
    ELSE <<NDOption("Prefix", Head(prefixes))>> \o PrefixOptions(Tail(prefixes))

OptionOf(type, o) == IF o = None THEN <<>> ELSE <<NDOption(type, o[1])>>

\* An advertisement that takes RDNSS, DNSSL and the captive portal from the
\* globals whatever the interface says.
build_announcement_pure_globals(config, intf, ll, mtu, self6, lifetime) ==
    [hop_limit |-> intf.hoplimit, flag_managed |-> intf.managed, flag_other |-> intf.other,
     lifetime |-> always_unwrap_or(intf.lifetime, lifetime),
     reachable |-> intf.reachable, retrans |-> intf.retrans,
     options |-> OptionOf("SourceLLAddr", ll) \o OptionOf("Mtu", mtu)
                 \o PrefixOptions(intf.prefixes)
                 \o <<NDOption("RDNSS", <<3 * DEFAULT_MAX_RTR_ADV_INTERVAL,
                                          Rdnss6(config.dns_servers, self6)>>)>>
                 \o <<NDOption("DNSSL", <<3 * DEFAULT_MAX_RTR_ADV_INTERVAL,
                                          config.dns_search>>)>>
                 \o OptionOf("Pref64", intf.pref64)
                 \o OptionOf("CaptivePortal", config.captive_portal)]

build_announcement_pure(config, intf, ll, mtu, self6, lifetime) ==
    LET rdnss == unwrap_or(intf.rdnss, Rdnss6(config.dns_servers, self6))
        dnssl == unwrap_or(intf.dnssl, config.dns_search)
        url == ConfigValue_or(intf.captive_portal, config.captive_portal)
        options ==
            OptionOf("SourceLLAddr", ll)
            \o OptionOf("Mtu", mtu)
            \o PrefixOptions(intf.prefixes)
            \o (IF rdnss # None
                THEN <<NDOption("RDNSS",
                                <<always_unwrap_or(intf.rdnss_lifetime,
                                                   3 * DEFAULT_MAX_RTR_ADV_INTERVAL),
                                  rdnss[1]>>)>>
                ELSE <<>>)
            \o (IF dnssl # None
                THEN <<NDOption("DNSSL",
                                <<always_unwrap_or(intf.dnssl_lifetime,
                                                   3 * DEFAULT_MAX_RTR_ADV_INTERVAL),
                                  dnssl[1]>>)>>
                ELSE <<>>)
            \o OptionOf("Pref64", intf.pref64)
            \o OptionOf("CaptivePortal", url)
    IN [hop_limit |-> intf.hoplimit, flag_managed |-> intf.managed,
        flag_other |-> intf.other,
        lifetime |-> always_unwrap_or(intf.lifetime, lifetime),
        reachable |-> intf.reachable, retrans |-> intf.retrans,
        options |-> options]

\* config::Interface with its defaults, and the globals of the tests.
DefaultInterface ==
    [hoplimit |-> 0, managed |-> FALSE, other |-> FALSE, lifetime |-> NotSpecified,
     reachable |-> 0, retrans |-> 0, prefixes |-> <<>>,
     rdnss |-> NotSpecified, rdnss_lifetime |-> NotSpecified,
     dnssl |-> NotSpecified, dnssl_lifetime |-> NotSpecified,
     captive_portal |-> NotSpecified, pref64 |-> None]

IP6G == <<32, 1, 13, 184, 0, 0, 0, 0, 0, 0, 0, 0, 0, 0, 0, 84>>
ULA1 == <<253, 0, 0, 0, 0, 0, 0, 0, 0, 0, 0, 0, 0, 0, 0, 1>>
ULA2 == <<252, 0, 0, 0, 0, 0, 0, 0, 0, 0, 0, 0, 0, 0, 0, 2>>
LL1 == <<254, 128, 0, 0, 0, 0, 0, 0, 0, 0, 0, 0, 0, 0, 0, 1>>
\* fe80:0:0:1::1 is outside fe80::/64 and so is Global.
LL2 == <<254, 128, 0, 0, 0, 0, 0, 1, 0, 0, 0, 0, 0, 0, 0, 1>>
MC1 == <<255, 2, 0, 0, 0, 0, 0, 0, 0, 0, 0, 0, 0, 0, 0, 1>>

RaDnsServers ==
    {<<>>, <<IP4B>>, <<IP4B, IP6B>>, <<UNSPECIFIED>>, <<IP6B, IP4B, UNSPECIFIED, IP6G>>,
     <<UNSPECIFIED, IP6B, UNSPECIFIED>>}
RaDnsSearch == {<<>>, <<"example.com">>, <<"example.com", "example.org">>}
RaRdnss == {NotSpecified, DontSet, Value(<<IP6G>>), Value(<<>>)}
RaDnssl == {NotSpecified, DontSet, Value(<<"example.net">>), Value(<<>>)}
RaPortals == {NotSpecified, DontSet, Value("portal.example")}
RaLifetimes == {NotSpecified, DontSet, Value(0), Value(3600)}
RaRoutes == {None, Some([gw |-> LL1, gwif |-> None]), Some([gw |-> LL1, gwif |-> Some(1)]),
             Some([gw |-> LL1, gwif |-> Some(2)])}
RaAddrs == {UNSPECIFIED, LOCALHOST, MC1, LL1, LL2, IP6A, ULA1, ULA2}

\* build_announcement decides the lifetime of the advertisement of ifidx.
ApplyLifetime ==
    /\ cv.fn = "none"
    /\ \E intf_lifetime \in RaLifetimes, route \in RaRoutes, ifidx \in {1, 2} :
          LET lifetime == build_announcement_lifetime(intf_lifetime, route, ifidx)
              intf == [DefaultInterface EXCEPT !.lifetime = intf_lifetime]
              config == [dns_servers |-> <<>>, dns_search |-> <<>>, captive_portal |-> None]
          IN cv' = [CvIdle EXCEPT
                       !.fn = "build_announcement",
                       !.ra = [ifidx |-> ifidx, intf |-> intf, route |-> route,
                               msg |-> build_announcement_pure(config, intf, None, None,
                                                               LL1, lifetime)]]
    /\ UNCHANGED <<now, buckets, hasher, inflight, sentCost, wstart, overlap, conns, svc, radv, reqs, metrics>>

\* build_announcement_pure is applied to the globals and an interface.
ApplyBuildAnnouncementPure ==
    /\ cv.fn = "none"
    /\ \E dns_servers \in RaDnsServers, dns_search \in RaDnsSearch,
          captive_portal \in {None, Some("example.com")},
          rdnss \in RaRdnss, dnssl \in RaDnssl, portal \in RaPortals,
          self6 \in {UNSPECIFIED, ULA1}, ll \in {None, Some(<<1, 2, 3, 4, 5, 6>>)},
          pref64 \in {None, Some(<<600, 96, IP6E>>)} :
          LET config == [dns_servers |-> dns_servers, dns_search |-> dns_search,
                         captive_portal |-> captive_portal]
              intf == [DefaultInterface EXCEPT !.rdnss = rdnss, !.dnssl = dnssl,
                                               !.captive_portal = portal,
                                               !.pref64 = pref64,
                                               !.prefixes = <<IP6A>>]
          IN cv' = [CvIdle EXCEPT
                       !.fn = "build_announcement_pure",
                       !.ra = [config |-> config, intf |-> intf, self6 |-> self6,
                               msg |-> build_announcement_pure(
                                           config, intf, ll, Some(1480), self6,
                                           ADV_DEFAULT_LIFETIME)]]
    /\ UNCHANGED <<now, buckets, hasher, inflight, sentCost, wstart, overlap, conns, svc, radv, reqs, metrics>>

\* ScopeSorter::cmp is applied to the pairs of three addresses.
ApplyScopeSorterCmp ==
    /\ cv.fn = "none"
    /\ \E a \in RaAddrs, b \in RaAddrs, c \in RaAddrs :
          cv' = [CvIdle EXCEPT
                    !.fn = "ScopeSorter::cmp",
                    !.ra = [a |-> a, b |-> b, c |-> c,
                            ab |-> ScopeSorter_cmp(a, b), ba |-> ScopeSorter_cmp(b, a),
                            bc |-> ScopeSorter_cmp(b, c), ac |-> ScopeSorter_cmp(a, c)]]
    /\ UNCHANGED <<now, buckets, hasher, inflight, sentCost, wstart, overlap, conns, svc, radv, reqs, metrics>>

MaxAddrs == 3

\* build_announcement takes the best of the addresses of an interface, in
\* the order in which netinfo gives them.
ApplySelf6 ==
    /\ cv.fn = "none"
    /\ \E n \in 0..MaxAddrs :
          \E prefixes \in [1..n -> RaAddrs \cup {IP4B}] :
             cv' = [CvIdle EXCEPT
                       !.fn = "self6",
                       !.ra = [prefixes |-> prefixes,
                               self6 |-> build_announcement_self6(prefixes)]]
    /\ UNCHANGED <<now, buckets, hasher, inflight, sentCost, wstart, overlap, conns, svc, radv, reqs, metrics>>

\* A query with a client cookie (and no server cookie, or any server cookie,
\* valid or not) gets a success reply; the client then sends a second query, from
\* the same or another port, over UDP or TCP, with the cookie of that reply,
\* and the reply to it is REFUSED: the task as should_ratelimit leaves it
\* in run_udp, and as run_tcp, which has no limiter, has it.
ApplyCookieRoundTrip ==
    /\ cv.fn = "none"
    /\ \E c \in CookieClients, a \in AllRemoteIPs, l \in AllLocalIPs,
          s0 \in {None} \cup {Some(t) : t \in CookieTags},
          outr \in PureOutReplies, port \in {5353, 5354}, protocol \in {"UDP", "TCP"},
          qid \in PureQids :
          LET cookie == IF s0 = None THEN ClientOnly(c) ELSE FullCookie(c, s0[1])
              msg == DnsMessage(DNSQuery(7, PureQuestion, Some(0), 1232, FALSE, cookie),
                                QuerySize, l, a, 5353, "UDP")
              reply == create_in_reply(msg, outr)
              msg2 == DnsMessage(DNSQuery(qid, PureQuestion, Some(0), 1232, FALSE,
                                          reply.edns.cookie),
                                 QuerySize, l, a, port, protocol)
          IN cv' = [CvIdle EXCEPT !.fn = "cookie round trip", !.msg = msg, !.outr = outr,
                                  !.reply = reply, !.msg2 = msg2, !.key = COOKIE_KEY,
                                  !.status = validate_cookie_key(msg2, COOKIE_KEY),
                                  !.task = Reply(msg2, "REFUSED", RefusedSize,
                                                 protocol = "UDP")]
    /\ UNCHANGED <<now, buckets, hasher, inflight, sentCost, wstart, overlap, conns, svc, radv, reqs, metrics>>

\* The caller has used the result.
Return ==
    /\ cv.fn # "none"
    /\ cv' = CvIdle
    /\ UNCHANGED <<now, buckets, hasher, inflight, sentCost, wstart, overlap, conns, svc, radv, reqs, metrics>>

NextPure ==
    \/ ApplyValidateCookie
    \/ ApplyCost
    \/ ApplyBuckets
    \/ ApplyCreateInReply
    \/ ApplyCreateInError
    \/ ApplyCalculateCookie
    \/ ApplyTcpReply
    \/ ApplyLifetime
    \/ ApplyBuildAnnouncementPure
    \/ ApplyScopeSorterCmp
    \/ ApplySelf6
    \/ ApplyCookieRoundTrip
    \/ Return

SpecPure == InitPure /\ [][NextPure]_vars

(***************************************************************************)
(* The router advertisement service: run and its two tasks.                *)
(***************************************************************************)
\* The addresses of the prefixes netinfo gives.
PrefixAddrs(prefixes) == [i \in 1..Len(prefixes) |-> prefixes[i][1]]

\* RaAdvService::build_announcement; prefixes is what get_prefixes_by_ifidx
\* gives it: the unwrap on it panics when netinfo has none, and the unwrap
\* on max panics when no address among them is an IPv6 address.
build_announcement(ifidx, prefixes) ==
    IF prefixes = None
    THEN RaResult("panic", "get_prefixes_by_ifidx", None, None)
    ELSE IF build_announcement_self6(PrefixAddrs(prefixes[1])) = None
    THEN RaResult("panic", "max", None, None)
    ELSE RaResult("Ok", "", Some([intf |-> ifidx]), None)

\* build_announcement_by_ifidx: the IPv6 prefixes of the interface that are in
\* the addresses list of the configuration.
HostPrefixes(prefixes, addresses) ==
    SelectSeq(prefixes, LAMBDA p : Len(p[1]) = 16 /\ p \in addresses)

\* RaAdvService::build_announcement_by_ifidx; prefixes is what
\* get_prefixes_by_ifidx gives it for an interface without a block in
\* ra.interfaces, prefixes2 what the same call gives build_announcement
\* afterwards.
build_announcement_by_ifidx(ifidx, prefixes, prefixes2) ==
    IF IfConfigured(ifidx)
    THEN build_announcement(ifidx, prefixes2)
    ELSE IF prefixes # None
    THEN IF HostPrefixes(prefixes[1], ConfAddresses) = <<>>
         THEN RaResult("Err", "UnconfiguredInterface", None, None)
         ELSE build_announcement(ifidx, prefixes2)
    ELSE RaResult("Err", "UnconfiguredInterface", None, None)

\* Mutant: a failed send is returned as an error.
send_announcement_fatal(msg, dst, intf, delivered) ==
    IF delivered
    THEN RaResult("Ok", "", Some(msg),
                  Some([dst |-> dst, intf |-> intf, delivered |-> delivered]))
    ELSE RaResult("Err", "Io", Some(msg),
                  Some([dst |-> dst, intf |-> intf, delivered |-> delivered]))

\* RaAdvService::send_announcement; delivered is the result of send_msg.
send_announcement(msg, dst, intf, delivered) ==
    RaResult("Ok", "", Some(msg),
             Some([dst |-> dst, intf |-> intf, delivered |-> delivered]))

\* send_announcement: the warning it logs when send_msg failed, and what it
\* adds to radv_sent_packets when send_msg succeeded.
SendWarnings(res) ==
    IF res.sent # None /\ ~res.sent[1].delivered
    THEN <<"Failed to send router advertisement">>
    ELSE <<>>

TxPackets(res) == IF res.sent # None /\ res.sent[1].delivered THEN 1 ELSE 0

\* RaAdvService::handle_solicit, up to the call of
\* build_announcement_by_ifidx, which is pending in the result "build".
handle_solicit(rm) ==
    IF rm.local_intf # None
    THEN IF rm.address # None
         THEN RaResult("build", "", None, None)
         ELSE RaResult("Err", "Io", None, None)
    ELSE RaResult("Err", "Io", None, None)

\* The two tasks of the service, and for each the fields of radv with its
\* result and its log, the position at which its loop goes on, and the
\* interface and the destination of the advertisement it is working on.
RaTasks == {"sol", "unsol"}
ResultOf(t) == IF t = "sol" THEN "solicit" ELSE "unsolicited"
LogOf(t) == IF t = "sol" THEN "sol_log" ELSE "unsol_log"
Resume(t) == IF t = "sol" THEN "recv" ELSE "loop"
TaskIntf(t) == IF t = "sol" THEN radv.rm.local_intf[1] ELSE radv.idx
TaskDst(t) == IF t = "sol" THEN radv.rm.address[1] ELSE NetAddr(ALL_NODES, radv.idx)

\* What a task does with the Err its call returned: run_solicited logs any
\* error of handle_solicit and goes on; run_unsolicited ignores
\* UnconfiguredInterface and returns any other error.
ErrLog(t) == IF t = "sol" THEN <<"Failed to handle router solicitation">> ELSE <<>>
ErrNext(t, err) ==
    IF t = "sol" \/ err = "UnconfiguredInterface" THEN Resume(t) ELSE "failed"

\* The advertisements sent whose task has not counted them yet.
TxPending ==
    Cardinality({t \in RaTasks : radv[t] = "sent" /\ TxPackets(radv[ResultOf(t)]) = 1})

InitRa ==
    /\ Init
    /\ hasher = [x \in Seeds \X RemoteIPs |-> 1]

\* RaAdvService::run spawns the solicited and the unsolicited task and
\* waits on services.next().
RaRun ==
    /\ radv.run = "start"
    /\ radv' = [radv EXCEPT !.run = "waiting", !.sol = "recv", !.unsol = "sleep"]
    /\ UNCHANGED <<now, buckets, hasher, inflight, sentCost, wstart, overlap, cv, conns, svc, reqs, metrics>>

\* What recv_msg on the raw socket gives: an error, or a message.
RecvErrors == {"WouldBlock", "Interrupted", "Other"}
RecvMsgs ==
    {RecvMsg(kind, local_intf, address) :
        kind \in {"RtrSolicit", "RtrAdvert", "Unknown", "unparseable"},
        local_intf \in {None} \cup {Some(Ifindexes[i]) : i \in 1..Len(Ifindexes)},
        address \in {None, Some(NetAddr(SolicitorIP, 0))}}

\* run_solicited: the message is parsed and matched; a solicitation
\* enters handle_solicit.
Matched(rm) ==
    LET res == IF rm.kind = "RtrSolicit" THEN handle_solicit(rm) ELSE NoResult
    IN [radv EXCEPT !.sol = IF res.res = "build" THEN "build" ELSE "recv",
                    !.rm = rm,
                    !.solicit = IF res.res = "build" THEN NoResult ELSE res,
                    !.sol_log = IF res.res = "Err" THEN ErrLog("sol") ELSE <<>>]

\* run_solicited: recv_msg returns.  A message with an interface waits for
\* the name of the interface; one without is matched at once.
RunSolicited ==
    /\ radv.sol = "recv"
    /\ \/ \E e \in RecvErrors :
            radv' = [radv EXCEPT !.sol = IF e = "Other" THEN "failed" ELSE "recv",
                                 !.rm = NoRecv, !.solicit = NoResult, !.sol_log = <<>>]
       \/ \E rm \in RecvMsgs :
            radv' = IF rm.local_intf # None
                    THEN [radv EXCEPT !.sol = "name", !.rm = rm, !.solicit = NoResult,
                                      !.sol_log = <<>>]
                    ELSE Matched(rm)
    /\ UNCHANGED <<now, buckets, hasher, inflight, sentCost, wstart, overlap, cv, conns, svc, reqs, metrics>>

\* run_solicited: get_safe_name_by_ifidx returns, and the message is
\* matched.
SolicitedName ==
    /\ radv.sol = "name"
    /\ radv' = Matched(radv.rm)
    /\ UNCHANGED <<now, buckets, hasher, inflight, sentCost, wstart, overlap, cv, conns, svc, reqs, metrics>>

\* handle_solicit and send_unsolicited: build_announcement_by_ifidx
\* returns, with what netinfo gave to its lookups.
BuildAnnouncement(t) ==
    /\ radv[t] = "build"
    /\ \E prefixes \in IfPrefixes(TaskIntf(t)), prefixes2 \in IfPrefixes(TaskIntf(t)) :
          LET reply == build_announcement_by_ifidx(TaskIntf(t), prefixes, prefixes2)
          IN radv' = [radv EXCEPT
                        ![t] = IF reply.res = "panic" THEN "panicked"
                               ELSE IF reply.res = "Err" THEN ErrNext(t, reply.err)
                               ELSE "send",
                        ![ResultOf(t)] = reply,
                        ![LogOf(t)] = IF reply.res = "Err" THEN ErrLog(t) ELSE <<>>]
    /\ UNCHANGED <<now, buckets, hasher, inflight, sentCost, wstart, overlap, cv, conns, svc, reqs, metrics>>

\* send_announcement: send_msg returns.
SendAnnouncement(t) ==
    /\ radv[t] = "send"
    /\ \E delivered \in BOOLEAN :
          /\ delivered => radv.tx + TxPending + 1 <= MaxTx
          /\ radv' = [radv EXCEPT
                        ![t] = "sent",
                        ![ResultOf(t)] =
                            send_announcement(radv[ResultOf(t)].adv[1], TaskDst(t),
                                              TaskIntf(t), delivered)]
    /\ UNCHANGED <<now, buckets, hasher, inflight, sentCost, wstart, overlap, cv, conns, svc, reqs, metrics>>

\* send_announcement: the name of the interface is looked up, the failure
\* is logged or the packet is counted, and the result goes to the loop.
SendAnnouncementReturns(t) ==
    /\ radv[t] = "sent"
    /\ LET res == radv[ResultOf(t)]
       IN radv' = [radv EXCEPT
                     ![t] = IF res.res = "Err" THEN ErrNext(t, res.err) ELSE Resume(t),
                     ![LogOf(t)] = SendWarnings(res)
                                   \o (IF res.res = "Err" THEN ErrLog(t) ELSE <<>>),
                     !.tx = radv.tx + TxPackets(res)]
    /\ UNCHANGED <<now, buckets, hasher, inflight, sentCost, wstart, overlap, cv, conns, svc, reqs, metrics>>

\* run_unsolicited: the sleep ends and the loop over the interfaces starts.
UnsolicitedWake ==
    /\ radv.unsol = "sleep"
    /\ radv' = [radv EXCEPT !.unsol = "loop", !.todo = Ifindexes, !.idx = 0,
                            !.flags = FALSE, !.unsolicited = NoResult, !.unsol_log = <<>>]
    /\ UNCHANGED <<now, buckets, hasher, inflight, sentCost, wstart, overlap, cv, conns, svc, reqs, metrics>>

\* Mutant: the MULTICAST flag is not looked at.
UnsolicitedNext_anyflags ==
    /\ radv.unsol = "loop"
    /\ radv.todo # <<>>
    /\ \E flags \in BOOLEAN :
          LET idx == Head(radv.todo)
              sends == flags
          IN radv' = [radv EXCEPT
                        !.unsol = IF sends THEN "build" ELSE "loop",
                        !.todo = Tail(radv.todo),
                        !.idx = idx,
                        !.flags = flags,
                        !.unsolicited = IF sends THEN NoResult
                                        ELSE RaResult("skipped", "", None, None),
                        !.unsol_log = <<>>]
    /\ UNCHANGED <<now, buckets, hasher, inflight, sentCost, wstart, overlap, cv, conns, svc, reqs, metrics>>

\* run_unsolicited: the next interface of the loop; flags says whether
\* get_flags_by_ifidx knows the interface.  An interface with the MULTICAST
\* flag enters send_unsolicited.
UnsolicitedNext ==
    /\ radv.unsol = "loop"
    /\ radv.todo # <<>>
    /\ \E flags \in BOOLEAN :
          LET idx == Head(radv.todo)
              sends == flags /\ IfMulticast(idx)
          IN radv' = [radv EXCEPT
                        !.unsol = IF sends THEN "build" ELSE "loop",
                        !.todo = Tail(radv.todo),
                        !.idx = idx,
                        !.flags = flags,
                        !.unsolicited = IF sends THEN NoResult
                                        ELSE RaResult("skipped", "", None, None),
                        !.unsol_log = <<>>]
    /\ UNCHANGED <<now, buckets, hasher, inflight, sentCost, wstart, overlap, cv, conns, svc, reqs, metrics>>

\* run_unsolicited: the interfaces are done, the task sleeps again.
UnsolicitedSleep ==
    /\ radv.unsol = "loop"
    /\ radv.todo = <<>>
    /\ radv' = [radv EXCEPT !.unsol = "sleep"]
    /\ UNCHANGED <<now, buckets, hasher, inflight, sentCost, wstart, overlap, cv, conns, svc, reqs, metrics>>

\* RaAdvService::run: services.next() gives the result of a task that has
\* exited; run logs it and returns once services is empty.
RaNext ==
    /\ radv.run = "waiting"
    /\ \E t \in RaTasks \ radv.seen :
          /\ radv[t] \in {"failed", "panicked"}
          /\ radv' = [radv EXCEPT !.seen = radv.seen \cup {t},
                                  !.run = IF radv.seen \cup {t} = RaTasks
                                          THEN "returned" ELSE "waiting"]
    /\ UNCHANGED <<now, buckets, hasher, inflight, sentCost, wstart, overlap, cv, conns, svc, reqs, metrics>>

NextRa ==
    \/ RaRun
    \/ RunSolicited
    \/ SolicitedName
    \/ UnsolicitedWake
    \/ UnsolicitedNext
    \/ UnsolicitedSleep
    \/ \E t \in RaTasks : BuildAnnouncement(t)
    \/ \E t \in RaTasks : SendAnnouncement(t)
    \/ \E t \in RaTasks : SendAnnouncementReturns(t)
    \/ RaNext

SpecRa == InitRa /\ [][NextRa]_vars

(***************************************************************************)
(* The erbium-dns process and the DNS service with its request tasks.      *)
(***************************************************************************)
Conns == BagToSet(conns)

\* The requests the service receives are counted up to MaxServed: three
\* refused replies without a cookie empty both buckets of an address.
MaxServed == 3

\* The request tasks alive: those without a reply yet and those with one.
NumTasks == BagCardinality(conns) + BagCardinality(inflight)

\* main: the exit status for the result of go.
ExitStatus(result) == IF result = "Err" THEN 1 ELSE 0

\* go, up to the spawn of DnsService::run: the Result go returns at once, or
\* "running" when the service was started.
go(startup) ==
    IF startup = "usage" THEN "Ok"
    ELSE IF startup \in {"config error", "listen error"} THEN "Err"
    ELSE "running"

\* main and go: the arguments are read, the configuration is loaded and the
\* service is made and spawned; a failure ends the process.
GoStart ==
    /\ svc.proc = "start"
    /\ \E startup \in {"usage", "config error", "listen error", "ok"} :
          svc' = IF go(startup) = "running"
                 THEN [svc EXCEPT !.proc = "running", !.startup = startup, !.run = "select"]
                 ELSE [svc EXCEPT !.proc = "exited", !.startup = startup,
                                  !.status = Some(ExitStatus(go(startup)))]
    /\ UNCHANGED <<now, buckets, hasher, inflight, sentCost, wstart, overlap, cv, conns, radv, reqs, metrics>>

\* The listener handler returns from an iteration with the result it.
Iterated(it) ==
    /\ svc.proc = "running"
    /\ svc.run = "select"
    /\ it.spawned # None => NumTasks < MaxConns /\ Received < MaxServed
    /\ svc' = [svc EXCEPT !.run = "iterated", !.result = it.result, !.event = it.event,
                          !.resumed = svc.resumed \/ (svc.failed /\ it.spawned # None)]
    /\ conns' = IF it.spawned # None THEN conns (+) One(it.spawned[1]) ELSE conns

\* DnsListenerHandler::run: the UDP receive completes first.
RunUdp ==
    /\ \E rm \in UdpReceived : Iterated(run_udp(rm))
    /\ UNCHANGED <<now, buckets, hasher, inflight, sentCost, wstart, overlap, cv, radv, reqs, metrics>>

\* DnsListenerHandler::run: the TCP accept completes first.
RunTcpListener ==
    /\ \E accepted \in BOOLEAN : Iterated(run_tcp_listener(accepted))
    /\ UNCHANGED <<now, buckets, hasher, inflight, sentCost, wstart, overlap, cv, radv, reqs, metrics>>

\* Mutant: the service returns Ok after an iteration without a task.
DnsServiceRun_once ==
    /\ svc.run = "iterated"
    /\ svc' = [svc EXCEPT !.run = IF svc.result = "Ok" /\ svc.event = "datagram"
                                  THEN "select" ELSE "returned",
                          !.event = IF svc.result = "Ok" THEN "" ELSE svc.event]
    /\ UNCHANGED <<now, buckets, hasher, inflight, sentCost, wstart, overlap, cv, conns, radv, reqs, metrics>>

\* DnsService::run: the ? on the iteration's result, and the loop.
DnsServiceRun ==
    /\ svc.run = "iterated"
    /\ svc' = [svc EXCEPT !.run = IF svc.result = "Ok" THEN "select" ELSE "returned",
                          !.event = IF svc.result = "Ok" THEN "" ELSE svc.event]
    /\ UNCHANGED <<now, buckets, hasher, inflight, sentCost, wstart, overlap, cv, conns, radv, reqs, metrics>>

\* go: services.next() gives the result of DnsService::run, which is
\* printed; the stream is empty, go returns Ok and main ends the process with
\* every task in it.
GoJoin ==
    /\ svc.proc = "running"
    /\ svc.run = "returned"
    /\ svc' = [svc EXCEPT !.proc = "exited", !.status = Some(ExitStatus("Ok"))]
    /\ conns' = EmptyBag
    /\ inflight' = EmptyBag
    /\ UNCHANGED <<now, buckets, hasher, sentCost, wstart, overlap, cv, radv, reqs, metrics>>

\* A task ends in an error or a panic: nothing is left of it.
Ended(c) ==
    /\ conns' = conns (-) One(c)
    /\ svc' = [svc EXCEPT !.failed = TRUE]

Moves(c, next) ==
    /\ conns' = (conns (-) One(c)) (+) One(next)
    /\ svc' = svc

\* run_tcp: the two octets of the length are read.
TcpReadLength(c) ==
    /\ c.pc = "readlen"
    /\ \E io \in {"Ok", "short", "Err"} :
          IF io = "Ok" THEN Moves(c, [c EXCEPT !.pc = "readbody"]) ELSE Ended(c)
    /\ UNCHANGED <<now, buckets, hasher, inflight, sentCost, wstart, overlap, cv, radv, reqs, metrics>>

\* run_tcp: the announced octets are read and the request task is spawned.
TcpReadBody(c) ==
    /\ c.pc = "readbody"
    /\ \/ Ended(c)
       \/ \E p \in Payloads \cup {<<"nolocal", NoCookie>>} :
             Moves(c, [c EXCEPT !.pc = "spawned", !.kind = p[1], !.cookie = p[2],
                                !.reads = c.reads + 1])
    /\ UNCHANGED <<now, buckets, hasher, inflight, sentCost, wstart, overlap, cv, radv, reqs, metrics>>

\* Mutant: the parse error of a request is returned to the service.
RequestTask_propagates(c) ==
    /\ c.pc = "spawned"
    /\ IF TaskStart(c) = "resolve" THEN Moves(c, [c EXCEPT !.pc = "resolve"])
       ELSE /\ conns' = conns (-) One(c)
            /\ svc' = [svc EXCEPT !.failed = TRUE, !.run = "returned", !.result = "ParseError"]
    /\ metrics' = IF TaskStart(c) = "parse fail"
                  THEN Inc(metrics, <<c.protocol, "parse fail">>) ELSE metrics
    /\ UNCHANGED <<now, buckets, hasher, inflight, sentCost, wstart, overlap, cv, radv, reqs>>

\* Mutant: a query that does not parse is answered with an error reply.
RequestTask_replies(c) ==
    /\ c.pc = "spawned"
    /\ IF TaskStart(c) = "resolve" THEN Moves(c, [c EXCEPT !.pc = "resolve"])
       ELSE IF TaskStart(c) = "parse fail"
       THEN Moves(c, [c EXCEPT !.pc = "synth", !.err = DnsError("ParseError", "", MsgText)])
       ELSE Ended(c)
    /\ metrics' = IF TaskStart(c) = "parse fail"
                  THEN Inc(metrics, <<c.protocol, "parse fail">>) ELSE metrics
    /\ UNCHANGED <<now, buckets, hasher, inflight, sentCost, wstart, overlap, cv, radv, reqs>>

\* The task spawned by run_udp or run_tcp starts: it builds the DnsMessage;
\* a parse failure is logged and counted, and the task ends.
RequestTask(c) ==
    /\ c.pc = "spawned"
    /\ IF TaskStart(c) = "resolve" THEN Moves(c, [c EXCEPT !.pc = "resolve"]) ELSE Ended(c)
    /\ metrics' = IF TaskStart(c) = "parse fail"
                  THEN Inc(metrics, <<c.protocol, "parse fail">>) ELSE metrics
    /\ UNCHANGED <<now, buckets, hasher, inflight, sentCost, wstart, overlap, cv, radv, reqs>>

\* recv_in_query: handle_query returns a reply or an error: one answered
\* REFUSED, one answered SERVFAIL, or the upstream error that has the name of
\* the listener's ParseError.  create_in_error is applied to every error of
\* ResolverErrors by ApplyCreateInError.
HandleQuery(c) ==
    /\ c.pc = "resolve"
    /\ \E err \in {NoError, DnsError("RefusedByAcl", "", AclReason),
                   DnsError("OutReply", "Timeout", ""),
                   DnsError("OutReply", "ParseError", MsgText)} :
          Moves(c, [c EXCEPT !.pc = "synth", !.err = err])
    /\ UNCHANGED <<now, buckets, hasher, inflight, sentCost, wstart, overlap, cv, radv, reqs, metrics>>

\* recv_in_query builds the reply and counts it; the task serialises it
\* and, on UDP, runs the head of should_ratelimit.
BuildReply(c) ==
    /\ c.pc = "synth"
    /\ IF InReply(c).unreachable
       THEN Ended(c) /\ inflight' = inflight /\ metrics' = metrics
       ELSE /\ conns' = conns (-) One(c)
            /\ svc' = svc
            /\ Spawn(Reply(ConnMsg(c), InReply(c).rcode, ReplySize(InReply(c).rcode),
                           c.protocol = "UDP"))
            /\ metrics' = Inc(metrics, <<c.protocol, "status">>)
    /\ UNCHANGED <<now, buckets, hasher, sentCost, wstart, overlap, cv, radv, reqs>>

\* run_udp: send_msg fails and the expect panics.
UdpSendFails(tk) ==
    /\ tk.pc = "send"
    /\ Finish(tk)
    /\ svc' = [svc EXCEPT !.failed = TRUE]
    /\ UNCHANGED <<now, buckets, hasher, sentCost, wstart, overlap, cv, conns, radv, reqs, metrics>>

\* run_tcp: the write of the framed reply fails; it is logged and counted.
TcpWriteFails(tk) ==
    /\ tk.pc = "write"
    /\ Finish(tk)
    /\ svc' = [svc EXCEPT !.failed = TRUE]
    /\ metrics' = Inc(metrics, <<"TCP", "send fail">>)
    /\ UNCHANGED <<now, buckets, hasher, sentCost, wstart, overlap, cv, conns, radv, reqs>>

InitService ==
    /\ Init
    /\ hasher = [x \in Seeds \X RemoteIPs |-> 1]

NextService ==
    \/ GoStart
    \/ RunUdp
    \/ RunTcpListener
    \/ DnsServiceRun
    \/ GoJoin
    \/ \E c \in Conns : TcpReadLength(c)
    \/ \E c \in Conns : TcpReadBody(c)
    \/ \E c \in Conns : RequestTask(c)
    \/ \E c \in Conns : HandleQuery(c)
    \/ \E c \in Conns : BuildReply(c)
    \/ \E tk \in Tasks : Probe1(tk)
    \/ \E tk \in Tasks : Deplete1(tk)
    \/ \E tk \in Tasks : Probe2(tk)
    \/ \E tk \in Tasks : Deplete2(tk)
    \/ \E tk \in Tasks : UdpSend(tk)
    \/ \E tk \in Tasks : UdpSendFails(tk)
    \/ \E tk \in Tasks : UdpDrop(tk)
    \/ \E tk \in Tasks : TcpWrite(tk)
    \/ \E tk \in Tasks : TcpWriteFails(tk)

SpecService == InitService /\ [][NextService]_vars

(***************************************************************************)
(* Properties of the request tasks and the limiter.                        *)
(***************************************************************************)
\* A copy of the task record tk leaves the bag in this step.
Left(tk) == CopiesIn(tk, inflight') < CopiesIn(tk, inflight)

\* A copy of the task record tk enters the bag in this step.
Entered(tk) == CopiesIn(tk, inflight') > CopiesIn(tk, inflight)

\* The task tk moves to pc in this step.
Moved(tk, pc) == Left(tk) /\ Entered([tk EXCEPT !.pc = pc])

NotSpoofed(msg) == validate_cookie_key(msg, COOKIE_KEY) = "Good"

\* What holds of every UDP task, and of every step that changes a bucket.
C1_UngatedState ==
    \A tk \in Tasks :
        tk.msg.protocol = "UDP" =>
            /\ PreReply(tk) <=> tk.rcode = ""
            /\ tk.consulted <=> (tk.rcode = "REFUSED" /\ ~NotSpoofed(tk.msg))
            /\ (~tk.consulted /\ ~PreReply(tk)) => tk.pc = "send"
            /\ tk.pc \in {"probe1", "deplete1", "probe2", "deplete2", "drop"} => tk.consulted

C1_UngatedStep ==
    buckets' # buckets =>
        \E tk \in Tasks :
            /\ Left(tk)
            /\ tk.msg.protocol = "UDP"
            /\ tk.rcode = "REFUSED"
            /\ ~NotSpoofed(tk.msg)

\* C1: a UDP reply reaches the limiter only when its rcode is REFUSED and the
\* query's cookie is not Good under the server key; every other UDP reply goes
\* straight to the send without a check, and only the check of a REFUSED reply
\* without a Good cookie ever changes a bucket.
C1_OnlyUnvalidatedRefusedIsLimited == [](C1_UngatedState) /\ [][C1_UngatedStep]_vars

C1_Witness ==
    \E tk \in Tasks :
        /\ tk.msg.protocol = "UDP"
        /\ tk.rcode = "REFUSED"
        /\ NotSpoofed(tk.msg)
        /\ tk.pc = "send"
        /\ ~tk.consulted

\* The steps of a check and where each leads.
C2_Step ==
    /\ \A tk \in Tasks :
        LET ip == tk.msg.remote_ip
        IN /\ (tk.pc = "probe1" /\ Left(tk)) =>
                IF Available(buckets[Bucket1(ip)], now) >= tk.cost
                THEN Moved(tk, "deplete1")
                ELSE Moved(tk, "probe2")
           /\ (tk.pc = "probe2" /\ Left(tk)) =>
                IF Available(buckets[Bucket2(ip)], now) >= tk.cost
                THEN Moved(tk, "deplete2")
                ELSE Moved(tk, "drop")
           /\ (tk.pc \in {"deplete1", "deplete2"} /\ Left(tk)) => Moved(tk, "send")
    /\ \A tk \in BagToSet(inflight') :
        /\ (tk.pc = "drop" /\ Entered(tk)) =>
              /\ Left([tk EXCEPT !.pc = "probe2"])
              /\ Available(buckets[Bucket2(tk.msg.remote_ip)], now) < tk.cost
        /\ (tk.pc = "probe2" /\ Entered(tk)) =>
              /\ Left([tk EXCEPT !.pc = "probe1"])
              /\ Available(buckets[Bucket1(tk.msg.remote_ip)], now) < tk.cost
        /\ (tk.pc = "send" /\ tk.consulted /\ Entered(tk)) =>
              \/ /\ Left([tk EXCEPT !.pc = "deplete1"])
              \/ /\ Left([tk EXCEPT !.pc = "deplete2"])

\* C2: check permits exactly when one of the IP's two buckets holds at least
\* cost tokens when it is probed: the first probe permits iff bucket1 holds
\* the cost, the second probe is made only after the first failed and permits
\* iff bucket2 holds the cost, and a denial comes only from a failed second
\* probe.
C2_PermitIffEitherBucket == [][C2_Step]_vars

C2_Witness ==
    \E tk \in Tasks :
        /\ tk.pc = "drop"
        /\ Available(buckets[Bucket1(tk.msg.remote_ip)], now) < tk.cost
        /\ Available(buckets[Bucket2(tk.msg.remote_ip)], now) < tk.cost

\* What a step of a check does to the buckets.
C3_Step ==
    /\ \A tk \in Tasks :
        LET i == Bucket1(tk.msg.remote_ip)
            j == Bucket2(tk.msg.remote_ip)
        IN /\ (tk.pc = "deplete1" /\ Left(tk)) =>
                /\ Available(buckets'[i], now) = Available(buckets[i], now) - tk.cost
                /\ buckets' = [buckets EXCEPT ![i] = buckets'[i]]
                /\ buckets'[j] = buckets[j]
           /\ (tk.pc = "deplete2" /\ Left(tk)) =>
                /\ Available(buckets'[j], now) = Available(buckets[j], now) - tk.cost
                /\ buckets' = [buckets EXCEPT ![j] = buckets'[j]]
                /\ buckets'[i] = buckets[i]
           /\ (tk.pc \in {"probe1", "probe2", "drop"} /\ Left(tk)) => buckets' = buckets
    /\ buckets' # buckets => \E tk \in Tasks : tk.pc \in {"deplete1", "deplete2"} /\ Left(tk)

\* C3: a permitting check depletes exactly the bucket whose probe succeeded,
\* by cost, and leaves the other 255 buckets as they were; the probes, and so
\* a denying check, change no bucket.
C3_OnlyPermittingBucketDepleted == [][C3_Step]_vars

C3_Witness ==
    \E tk \in Tasks :
        /\ tk.pc = "send"
        /\ tk.consulted
        /\ buckets[Bucket2(tk.msg.remote_ip)] # NewBucket
        /\ buckets[Bucket1(tk.msg.remote_ip)] # NewBucket

\* What holds of every TCP task, and of every step of one.
C8_TcpState ==
    \A tk \in Tasks :
        tk.msg.protocol = "TCP" =>
            /\ ~tk.consulted
            /\ tk.cost = 0
            /\ IF tk.rcode = "" THEN PreReply(tk) ELSE tk.pc = "write"

C8_TcpStep ==
    \A tk \in Tasks \cup BagToSet(inflight') :
        (tk.msg.protocol = "TCP" /\ (Left(tk) \/ Entered(tk))) => buckets' = buckets

\* C8: a TCP task never reaches the limiter, whatever its rcode and cookie:
\* it goes straight to the write, and no step of a TCP task changes a bucket.
C8_TcpNeverLimited == [](C8_TcpState) /\ [][C8_TcpStep]_vars

C8_Witness ==
    \E tk \in Tasks :
        /\ tk.msg.protocol = "TCP"
        /\ tk.rcode = "REFUSED"
        /\ ~NotSpoofed(tk.msg)
        /\ tk.pc = "write"
        /\ \E i \in BucketIds : buckets[i] # NewBucket

\* C4: the two bucket indices of a check are distinct and lie in 0..255:
\* bucket1 is hash1 mod 256 and bucket2 is hash2 mod 255, remapped to 255
\* when that equals bucket1; they are a function of the two hashes alone.
C4_DistinctBuckets ==
    cv.fn = "buckets" =>
        /\ cv.bucket1 \in 0..255
        /\ cv.bucket2 \in 0..255
        /\ cv.bucket1 # cv.bucket2
        /\ cv.bucket1 = cv.hash1 % 256
        /\ cv.bucket2 = (IF cv.hash2 % 255 = cv.hash1 % 256 THEN 255 ELSE cv.hash2 % 255)

C4_Witness ==
    /\ cv.fn = "buckets"
    /\ cv.hash2 % 255 = cv.hash1 % 256
    /\ cv.hash1 # cv.hash2
    /\ cv.bucket2 = 255

\* C5 as stated: whatever the interleaving of the request tasks, the cost of
\* the REFUSED replies sent to one IP in a window is at most 2*C + 2*R*T.
C5_BoundAnyInterleaving ==
    \A ip \in RemoteIPs : sentCost[ip] <= 2 * Capacity + 2 * Rate * (now - wstart)

\* C5, amended: as long as no two request tasks of the IP have been inside
\* the limiter (from the first probe to the send) at once, the cost of the
\* REFUSED replies sent to it in a window is at most 2*C + 2*R*T plus the
\* cost of one reply: the tokens are taken at the depletion and the reply
\* is sent after it, so a reply let through before the window starts can be
\* sent inside it.
C5_BoundWithPendingReply ==
    \A ip \in RemoteIPs :
        ~overlap[ip] =>
            sentCost[ip] <= 2 * Capacity + 2 * Rate * (now - wstart)
                            + Cost(RefusedSize, QuerySize)

C5_Witness ==
    \E ip \in RemoteIPs :
        /\ ~overlap[ip]
        /\ now > wstart
        /\ sentCost[ip] = 2 * Capacity + 2 * Rate * (now - wstart)
                          + Cost(RefusedSize, QuerySize)

\* C6: the cost of a reply of r octets to a query of q octets is
\* max(0, 2*r - q): exactly 2*r - q when the reply is larger than the query,
\* and never negative.
C6_CostFormula ==
    cv.fn = "cost" =>
        /\ cv.cost = Max(0, 2 * cv.r - cv.q)
        /\ cv.r > cv.q => cv.cost = 2 * cv.r - cv.q
        /\ cv.cost >= 0

C6_Witness ==
    /\ cv.fn = "cost"
    /\ cv.r > cv.q
    /\ cv.q > 0
    /\ cv.cost = 2 * cv.r - cv.q

\* C7 as stated: a reply no larger than the query costs nothing.
C7_SmallReplyFree ==
    (cv.fn = "cost" /\ cv.r <= cv.q) => cv.cost = 0

\* C7, amended: the cost is zero exactly when the reply has at most half the
\* octets of the query; a reply no larger than the query is charged
\* 2*r - q when that is positive, which is at most its own size r.
C7_HalfSizeReplyFree ==
    cv.fn = "cost" =>
        /\ cv.cost = 0 <=> 2 * cv.r <= cv.q
        /\ cv.r <= cv.q => cv.cost <= cv.r
        /\ (cv.r <= cv.q /\ 2 * cv.r > cv.q) => cv.cost = 2 * cv.r - cv.q

C7_Witness ==
    /\ cv.fn = "cost"
    /\ cv.r <= cv.q
    /\ cv.r > 0
    /\ cv.cost > 0

\* The server cookie of msg is the MAC of its client cookie and addresses
\* under key.
Validates(msg, key) ==
    /\ msg.cookie.present
    /\ msg.cookie.has_server
    /\ msg.cookie.server =
          HmacSha256(key, msg.cookie.client \o msg.local_ip \o msg.remote_ip)

\* C9: validate_cookie is Good exactly when the server cookie validates
\* under the new key or the old key; the old key is tried exactly when the
\* new key gives Bad, and a Missing from the new key is returned as it is.
C9_GoodIffEitherKey ==
    cv.fn = "validate_cookie" =>
        /\ cv.status = "Good" <=> (Validates(cv.msg, cv.key) \/ Validates(cv.msg, cv.oldkey))
        /\ cv.tried \in {<<cv.key>>, <<cv.key, cv.oldkey>>}
        /\ Len(cv.tried) = 2 <=>
              (cv.msg.cookie.present /\ cv.msg.cookie.has_server /\ ~Validates(cv.msg, cv.key))
        /\ ~(cv.msg.cookie.present /\ cv.msg.cookie.has_server) =>
              (cv.status = "Missing" /\ cv.tried = <<cv.key>>)

C9_Witness ==
    /\ cv.fn = "validate_cookie"
    /\ cv.key # cv.oldkey
    /\ ~Validates(cv.msg, cv.key)
    /\ Validates(cv.msg, cv.oldkey)
    /\ cv.status = "Good"
    /\ cv.tried = <<cv.key, cv.oldkey>>

\* C10 as stated: the result is Missing exactly when the query has no client
\* cookie, and Bad exactly when it has one and neither key matches.
C10_MissingIffNoClientCookie ==
    cv.fn = "validate_cookie" =>
        /\ cv.status = "Missing" <=> ~cv.msg.cookie.present
        /\ cv.status = "Bad" <=>
              (cv.msg.cookie.present
               /\ ~Validates(cv.msg, cv.key) /\ ~Validates(cv.msg, cv.oldkey))

\* C10, amended: the result is Missing exactly when the query has no server
\* cookie (no cookie at all, or a client cookie alone), and Bad exactly when
\* it has a client and a server cookie and neither key matches.
C10_MissingIffNoServerCookie ==
    cv.fn = "validate_cookie" =>
        /\ cv.status = "Missing" <=> ~(cv.msg.cookie.present /\ cv.msg.cookie.has_server)
        /\ cv.status = "Bad" <=>
              (cv.msg.cookie.present /\ cv.msg.cookie.has_server
               /\ ~Validates(cv.msg, cv.key) /\ ~Validates(cv.msg, cv.oldkey))

C10_Witness ==
    /\ cv.fn = "validate_cookie"
    /\ cv.msg.cookie.present
    /\ ~cv.msg.cookie.has_server
    /\ cv.status = "Missing"

(***************************************************************************)
(* Properties of reply synthesis and of the cookie MAC.                    *)
(***************************************************************************)
\* C11: a success reply carries a COOKIE option exactly when the query
\* carried one; its client half is the query's client cookie and its server
\* half is the first 32 octets of HMAC-SHA256(COOKIE_KEY, client cookie ||
\* local_ip octets || remote IP octets), whatever server cookie the query had.
C11_ReplyCookieFromServerKey ==
    cv.fn = "create_in_reply" =>
        LET q == cv.msg.in_query.cookie
            c == cv.reply.edns.cookie
        IN /\ c.present <=> q.present
           /\ q.present =>
                /\ c.client = q.client
                /\ c.has_server
                /\ c.server = Prefix(HmacSha256(COOKIE_KEY,
                                  q.client \o cv.msg.local_ip \o cv.msg.remote_ip), 32)

C11_Witness ==
    /\ cv.fn = "create_in_reply"
    /\ cv.msg.in_query.cookie.has_server
    /\ cv.msg.in_query.cookie.server # BadTag
    /\ ~Validates(cv.msg, COOKIE_KEY)
    /\ cv.reply.edns.cookie.server # cv.msg.in_query.cookie.server
    /\ cv.reply.edns.cookie.client = ClientCookieB

\* The parts of two messages that the MAC is made of.
SameClient == cv.client = cv.client2
SameLocal == cv.msg.local_ip = cv.msg2.local_ip
SameRemote == cv.msg.remote_ip = cv.msg2.remote_ip

\* C12: under one key, two messages with the same client cookie, local_ip
\* and remote IP have the same MAC whatever their remote port, QID or
\* protocol, and two messages that differ in exactly one of the three have
\* different MACs.
C12_CookieBindsClientAndAddresses ==
    cv.fn = "calculate_cookie" =>
        /\ (SameClient /\ SameLocal /\ SameRemote) => cv.mac = cv.mac2
        /\ (~SameClient /\ SameLocal /\ SameRemote) => cv.mac # cv.mac2
        /\ (SameClient /\ ~SameLocal /\ SameRemote) => cv.mac # cv.mac2
        /\ (SameClient /\ SameLocal /\ ~SameRemote) => cv.mac # cv.mac2

C12_Witness ==
    /\ cv.fn = "calculate_cookie"
    /\ SameClient /\ SameLocal /\ SameRemote
    /\ cv.msg.remote_port # cv.msg2.remote_port
    /\ cv.msg.in_query.qid # cv.msg2.in_query.qid
    /\ cv.msg.protocol # cv.msg2.protocol
    /\ Len(cv.msg.local_ip) # Len(cv.msg.remote_ip)
    /\ cv.mac = cv.mac2

\* C18: for every error of the resolver chain the error reply has rcode
\* REFUSED or SERVFAIL and the extended DNS error of the table: RefusedByAcl
\* and Denied give REFUSED and PROHIBITED with the reason, NotAuthoritative
\* gives REFUSED and NOT_AUTHORITATIVE, an upstream timeout gives SERVFAIL and
\* NO_REACHABLE_AUTHORITY, upstream send, receive, TCP connect and parse
\* errors give SERVFAIL and NETWORK_ERROR with the error's text, and an
\* internal error gives SERVFAIL and OTHER with the text "Internal Error".
C18_ErrorReplyTable ==
    cv.fn = "create_in_error" =>
        LET e == cv.err
            rcode == cv.reply.rcode
            ede == cv.reply.edns.ede
        IN /\ ~cv.reply.unreachable
           /\ rcode \in {"REFUSED", "SERVFAIL"}
           /\ ede.present
           /\ e.kind \in {"RefusedByAcl", "Denied"} =>
                rcode = "REFUSED" /\ ede.code = "PROHIBITED" /\ ede.text = e.text
           /\ e.kind = "NotAuthoritative" =>
                /\ rcode = "REFUSED" /\ ede.code = "NOT_AUTHORITATIVE"
                /\ ede.text = "Not Authoritative"
           /\ (e.kind = "OutReply" /\ e.out = "Timeout") =>
                /\ rcode = "SERVFAIL" /\ ede.code = "NO_REACHABLE_AUTHORITY"
                /\ ede.text = "Timed out talking to upstream server"
           /\ (e.kind = "OutReply"
               /\ e.out \in {"FailedToSend", "FailedToSendMsg", "FailedToRecv",
                             "FailedToRecvMsg", "TcpConnectionError", "ParseError"}) =>
                rcode = "SERVFAIL" /\ ede.code = "NETWORK_ERROR" /\ ede.text = e.text
           /\ (e.kind = "OutReply" /\ e.out = "InternalError") =>
                rcode = "SERVFAIL" /\ ede.code = "OTHER" /\ ede.text = "Internal Error"

C18_Witness ==
    /\ cv.fn = "create_in_error"
    /\ cv.err.kind = "OutReply"
    /\ cv.err.out = "Timeout"
    /\ cv.reply.rcode = "SERVFAIL"
    /\ cv.reply.edns.ede.code = "NO_REACHABLE_AUTHORITY"

(***************************************************************************)
(* Properties of the router advertisement service.                         *)
(***************************************************************************)
\* C13: run returns its error as soon as it has seen one of its two tasks
\* exit, by failure or by panic; it does not go on waiting for the other.
C13_ReturnsOnFirstExit ==
    radv.seen # {} => radv.run = "returned"

\* C14: a router solicitation received with interface information, on an
\* interface an advertisement can be built for, is answered with the
\* advertisement of that interface, sent to the solicitor's address when the
\* message has one and to ff02::1 scoped to the receiving interface when not.
C14_SolicitAnswered ==
    (/\ radv.rm.kind = "RtrSolicit"
     /\ radv.rm.local_intf # None
     /\ radv.sol = "recv"
     /\ radv.solicit.res # "panic"
     /\ radv.solicit.err # "UnconfiguredInterface") =>
        LET ifidx == radv.rm.local_intf[1]
        IN /\ radv.solicit.sent # None
           /\ radv.solicit.adv = Some([intf |-> ifidx])
           /\ radv.solicit.sent[1].intf = ifidx
           /\ radv.solicit.sent[1].dst =
                 (IF radv.rm.address # None THEN radv.rm.address[1]
                  ELSE NetAddr(ALL_NODES, ifidx))

(***************************************************************************)
(* The requests of the DNS listener, one task each.                        *)
(***************************************************************************)
ReqIds == 1..Len(reqs)

Continue(i, r) == reqs' = [reqs EXCEPT ![i] = r]

Done(r, end) == [r EXCEPT !.pc = "done", !.end = end]

\* run_udp: a datagram is received and its task is spawned.
UdpDatagram ==
    /\ Len(reqs) < MaxReqs
    /\ \E rm \in UdpDatagrams :
          reqs' = Append(reqs, Request("UDP", "spawned", rm.parses, rm.local_ip,
                                       rm.address, "", 0, 0, <<>>, ""))
    /\ UNCHANGED <<now, buckets, hasher, inflight, sentCost, wstart, overlap, cv, conns, svc, radv, metrics>>

\* run_tcp_listener: a connection is accepted and run_tcp is spawned.
TcpConnection ==
    /\ Len(reqs) < MaxReqs
    /\ \E sock \in TcpSockets :
          reqs' = Append(reqs, Request("TCP", "readlen", FALSE, sock.local_ip,
                                       sock.address, "", 0, 0, <<>>, ""))
    /\ UNCHANGED <<now, buckets, hasher, inflight, sentCost, wstart, overlap, cv, conns, svc, radv, metrics>>

\* Mutant: a length of which one octet was read is taken as read.
RunTcpLength_short(i) ==
    /\ reqs[i].pc = "readlen"
    /\ \E got \in {"error", "0 octets", "1 octet", "2 octets"} :
          LET r == [reqs[i] EXCEPT !.read = "length: " \o got]
          IN Continue(i, IF got = "error" THEN Done(r, "RecvError")
                         ELSE IF got = "0 octets" THEN Done(r, "ParseError")
                         ELSE [r EXCEPT !.pc = "readbody"])
    /\ UNCHANGED <<now, buckets, hasher, inflight, sentCost, wstart, overlap, cv, conns, svc, radv, metrics>>

\* run_tcp: sock.read of the two length octets fails, or gives 0, 1 or 2.
RunTcpLength(i) ==
    /\ reqs[i].pc = "readlen"
    /\ \E got \in {"error", "0 octets", "1 octet", "2 octets"} :
          LET r == [reqs[i] EXCEPT !.read = "length: " \o got]
          IN Continue(i, IF got = "error" THEN Done(r, "RecvError")
                         ELSE IF got # "2 octets" THEN Done(r, "ParseError")
                         ELSE [r EXCEPT !.pc = "readbody"])
    /\ UNCHANGED <<now, buckets, hasher, inflight, sentCost, wstart, overlap, cv, conns, svc, radv, metrics>>

\* run_tcp: read_exact of the announced octets fails, ends early or gives
\* them all; then the request task is spawned and run_tcp returns Ok.
RunTcpBody(i) ==
    /\ reqs[i].pc = "readbody"
    /\ \E got \in {"error", "short", "all"}, parses \in BOOLEAN :
          LET r == [reqs[i] EXCEPT !.read = "body: " \o got]
          IN Continue(i, IF got = "all"
                         THEN [r EXCEPT !.pc = "spawned", !.parses = parses]
                         ELSE Done(r, "RecvError"))
    /\ UNCHANGED <<now, buckets, hasher, inflight, sentCost, wstart, overlap, cv, conns, svc, radv, metrics>>

\* Mutant: a parse failure is not counted.
TaskBuildMessage_uncounted(i) ==
    /\ reqs[i].pc = "spawned"
    /\ IF reqs[i].local_ip = None \/ reqs[i].address = None
       THEN Continue(i, Done(reqs[i], "panic")) /\ metrics' = metrics
       ELSE IF ~reqs[i].parses
       THEN Continue(i, Done(reqs[i], "parse fail")) /\ metrics' = metrics
       ELSE Continue(i, [reqs[i] EXCEPT !.pc = "resolve"]) /\ metrics' = metrics
    /\ UNCHANGED <<now, buckets, hasher, inflight, sentCost, wstart, overlap, cv, conns, svc, radv>>

\* The request task: the unwraps of the addresses, build_dns_message and the
\* match on its result.
TaskBuildMessage(i) ==
    /\ reqs[i].pc = "spawned"
    /\ IF reqs[i].local_ip = None \/ reqs[i].address = None
       THEN Continue(i, Done(reqs[i], "panic")) /\ metrics' = metrics
       ELSE IF ~reqs[i].parses
       THEN /\ Continue(i, Done(reqs[i], "parse fail"))
            /\ metrics' = Inc(metrics, <<reqs[i].protocol, "parse fail">>)
       ELSE Continue(i, [reqs[i] EXCEPT !.pc = "resolve"]) /\ metrics' = metrics
    /\ UNCHANGED <<now, buckets, hasher, inflight, sentCost, wstart, overlap, cv, conns, svc, radv>>

\* recv_in_query takes the read guard of the handler and calls
\* handle_query, in which the task waits.
TaskRecvInQuery(i) ==
    /\ reqs[i].pc = "resolve"
    /\ Continue(i, [reqs[i] EXCEPT !.resolver = @ + 1, !.pc = "resolving"])
    /\ UNCHANGED <<now, buckets, hasher, inflight, sentCost, wstart, overlap, cv, conns, svc, radv, metrics>>

\* recv_in_query: handle_query returns; the reply is built from its result
\* and counted, and the task serialises it.
TaskInReply(i) ==
    /\ reqs[i].pc = "resolving"
    /\ \E rcode \in Rcodes :
          Continue(i, [reqs[i] EXCEPT !.rcode = rcode,
                                      !.pc = IF reqs[i].protocol = "UDP"
                                             THEN "ratelimit" ELSE "write"])
    /\ metrics' = Inc(metrics, <<reqs[i].protocol, "status">>)
    /\ UNCHANGED <<now, buckets, hasher, inflight, sentCost, wstart, overlap, cv, conns, svc, radv>>

\* The address a request is billed to, and what its reply costs.
ReqIp(r) == r.address[1].ip
ReqCost(r) == Cost(ReplySize(r.rcode), QuerySize)

\* The UDP task calls should_ratelimit: it returns false for a reply that is
\* not REFUSED and for a query whose cookie is Good, and else calls
\* IpRateLimiter::check, which waits for the lock of bucket1.
TaskShouldRatelimit(i) ==
    /\ reqs[i].pc = "ratelimit"
    /\ \E good \in BOOLEAN :
          LET r == [reqs[i] EXCEPT !.limiter = @ + 1]
          IN Continue(i, IF r.rcode # "REFUSED" \/ good
                         THEN [r EXCEPT !.pc = "send"]
                         ELSE [r EXCEPT !.pc = "probe1"])
    /\ UNCHANGED <<now, buckets, hasher, inflight, sentCost, wstart, overlap, cv, conns, svc, radv, metrics>>

\* IpRateLimiter::check, probe of bucket1 under its read lock.
TaskProbe1(i) ==
    /\ reqs[i].pc = "probe1"
    /\ Continue(i, [reqs[i] EXCEPT !.pc =
                       IF BucketCheck(buckets[Bucket1(ReqIp(reqs[i]))], now, ReqCost(reqs[i]))
                       THEN "deplete1" ELSE "probe2"])
    /\ UNCHANGED <<now, buckets, hasher, inflight, sentCost, wstart, overlap, cv, conns, svc, radv, metrics>>

\* IpRateLimiter::check, probe of bucket2 under its read lock; when it
\* fails too, check returns false and should_ratelimit true: the reply is
\* not sent.
TaskProbe2(i) ==
    /\ reqs[i].pc = "probe2"
    /\ Continue(i, IF BucketCheck(buckets[Bucket2(ReqIp(reqs[i]))], now, ReqCost(reqs[i]))
                   THEN [reqs[i] EXCEPT !.pc = "deplete2"]
                   ELSE Done(reqs[i], "not sent"))
    /\ UNCHANGED <<now, buckets, hasher, inflight, sentCost, wstart, overlap, cv, conns, svc, radv, metrics>>

\* IpRateLimiter::check, depletion of the bucket whose probe succeeded,
\* under its write lock; check returns true and should_ratelimit false.
TaskDeplete(i) ==
    /\ reqs[i].pc \in {"deplete1", "deplete2"}
    /\ LET b == IF reqs[i].pc = "deplete1" THEN Bucket1(ReqIp(reqs[i]))
                ELSE Bucket2(ReqIp(reqs[i]))
       IN buckets' = [buckets EXCEPT ![b] = BucketDeplete(buckets[b], now, ReqCost(reqs[i]))]
    /\ Continue(i, [reqs[i] EXCEPT !.pc = "send"])
    /\ UNCHANGED <<now, hasher, inflight, sentCost, wstart, overlap, cv, conns, svc, radv, metrics>>

\* Mutant: the source is the local address of the datagram received last.
TaskSendMsg_lastlocal(i) ==
    /\ reqs[i].pc = "send"
    /\ \E ok \in BOOLEAN :
          Continue(i, IF ok
                      THEN Done([reqs[i] EXCEPT !.sent =
                                    Append(@, Packet(reqs[Len(reqs)].local_ip,
                                                     reqs[i].address[1]))], "sent")
                      ELSE Done(reqs[i], "panic"))
    /\ UNCHANGED <<now, buckets, hasher, inflight, sentCost, wstart, overlap, cv, conns, svc, radv, metrics>>

\* The UDP task sends the reply with send_msg: the control message asks for
\* rm.local_ip() as the source, the destination is rm.address; a failure
\* panics in expect.
TaskSendMsg(i) ==
    /\ reqs[i].pc = "send"
    /\ \E ok \in BOOLEAN :
          Continue(i, IF ok
                      THEN Done([reqs[i] EXCEPT !.sent =
                                    Append(@, Packet(reqs[i].local_ip,
                                                     reqs[i].address[1]))], "sent")
                      ELSE Done(reqs[i], "panic"))
    /\ UNCHANGED <<now, buckets, hasher, inflight, sentCost, wstart, overlap, cv, conns, svc, radv, metrics>>

\* The TCP task writes the framed reply to its socket; a failure is counted.
TaskWrite(i) ==
    /\ reqs[i].pc = "write"
    /\ \E ok \in BOOLEAN :
          IF ok
          THEN /\ Continue(i, Done([reqs[i] EXCEPT !.sent =
                                       Append(@, Packet(reqs[i].local_ip,
                                                        reqs[i].address[1]))], "written"))
               /\ metrics' = metrics
          ELSE /\ Continue(i, Done(reqs[i], "send fail"))
               /\ metrics' = Inc(metrics, <<"TCP", "send fail">>)
    /\ UNCHANGED <<now, buckets, hasher, inflight, sentCost, wstart, overlap, cv, conns, svc, radv>>

\* The hashes of the two peers: those of hash_ip, each peer with its own
\* buckets, and for peers whose hashes collide the same two buckets.
RequestHashers == {DefaultHasher, [x \in Seeds \X AllRemoteIPs |-> 1]}

\* The listener has been constructed.
InitRequests ==
    /\ now = 0
    /\ buckets = [i \in BucketIds |-> NewBucket]
    /\ hasher \in RequestHashers
    /\ inflight = EmptyBag
    /\ sentCost = [ip \in RemoteIPs |-> 0]
    /\ wstart = 0
    /\ overlap = [ip \in RemoteIPs |-> FALSE]
    /\ cv = CvIdle
    /\ conns = EmptyBag
    /\ svc = SvcStart
    /\ radv = RaStart
    /\ reqs = <<>>
    /\ metrics = NoMetrics

NextRequests ==
    \/ UdpDatagram
    \/ TcpConnection
    \/ \E i \in ReqIds : RunTcpLength(i)
    \/ \E i \in ReqIds : RunTcpBody(i)
    \/ \E i \in ReqIds : TaskBuildMessage(i)
    \/ \E i \in ReqIds : TaskRecvInQuery(i)
    \/ \E i \in ReqIds : TaskInReply(i)
    \/ \E i \in ReqIds : TaskShouldRatelimit(i)
    \/ \E i \in ReqIds : TaskProbe1(i)
    \/ \E i \in ReqIds : TaskProbe2(i)
    \/ \E i \in ReqIds : TaskDeplete(i)
    \/ \E i \in ReqIds : TaskSendMsg(i)
    \/ \E i \in ReqIds : TaskWrite(i)

SpecRequests == InitRequests /\ [][NextRequests]_vars

(***************************************************************************)
(* Properties of the DNS service and of the erbium-dns process.            *)
(***************************************************************************)
\* A copy of the record c leaves conns in this step.
LeftConns(c) == CopiesIn(c, conns') < CopiesIn(c, conns)

\* A copy of the record c enters conns in this step.
EnteredConns(c) == CopiesIn(c, conns') > CopiesIn(c, conns)

\* A request task takes a step, and the process goes on.
TaskStep ==
    /\ svc.proc = "running" /\ svc'.proc = "running"
    /\ \/ \E c \in Conns : LeftConns(c)
       \/ \E tk \in Tasks : Left(tk)

\* What ends a task without a reply, and where a reply leaves from.
C15_Step ==
    /\ TaskStep =>
         /\ svc'.run = svc.run
         /\ svc'.result = svc.result
         /\ svc'.status = svc.status
    /\ \A c \in Conns :
         (TaskStep /\ LeftConns(c) /\ BagCardinality(conns') < BagCardinality(conns)) =>
            \/ inflight' = inflight /\ svc'.failed
            \/ c.pc = "synth" /\ BagCardinality(inflight') = BagCardinality(inflight) + 1
    /\ \A tk \in Tasks :
         (TaskStep /\ Left(tk) /\ BagCardinality(inflight') < BagCardinality(inflight)) =>
            tk.pc \in {"send", "drop", "write"}

\* C15: no step of a request task, whether it ends in a parse failure, a
\* resolver error, a failed read, write or send, or a panic, changes what
\* the listener handler or DnsService::run returns: a task that ends
\* without a reply is dropped, a reply leaves from the send or the write,
\* and if the service has returned, it is with the error of a receive or of
\* an accept.
C15_RequestErrorsContained ==
    [](svc.run = "returned" => svc.result \in {"RecvError", "ListenError"})
    /\ [][C15_Step]_vars

C15_Witness ==
    /\ svc.resumed
    /\ svc.proc = "running"
    /\ svc.run = "select"
    /\ \E c \in Conns : c.pc = "resolve"

\* What an iteration returns, and what the service does with it.
C16_State ==
    /\ svc.run = "iterated" =>
         /\ svc.result = "Ok" <=>
               svc.event \in {"datagram", "WouldBlock", "Interrupted", "connection"}
         /\ svc.result = "RecvError" <=> svc.event = "Other"
         /\ svc.result = "ListenError" <=> svc.event = "accept failed"
    /\ svc.run = "returned" =>
         \/ svc.result = "RecvError" /\ svc.event = "Other"
         \/ svc.result = "ListenError" /\ svc.event = "accept failed"

C16_Step ==
    /\ (svc.run = "iterated" /\ svc'.run # "iterated") =>
         svc'.run = (IF svc.result = "Ok" THEN "select" ELSE "returned")
    /\ (svc.run = "select" /\ svc'.run # "select") =>
         /\ svc'.run = "iterated"
         /\ BagCardinality(conns') =
               BagCardinality(conns)
               + (IF svc'.event \in {"datagram", "connection"} THEN 1 ELSE 0)
    /\ (svc.run # "returned" /\ svc'.run = "returned") =>
         svc.run = "iterated" /\ svc.result # "Ok"

\* C16: DnsService::run calls the listener handler again after every
\* iteration that returned Ok, an iteration hands at most one datagram or one
\* connection to a task, and run returns only with the error of an
\* iteration: a UDP receive error other than WouldBlock and Interrupted, or
\* an accept error; it never returns Ok.
C16_ServiceLoopsUntilFatal == [](C16_State) /\ [][C16_Step]_vars

C16_Witness ==
    /\ svc.run = "select"
    /\ \E c \in Conns : c.pc = "readlen"
    /\ svc.resumed

\* C17: the process ends with status 1 when the startup fails and when the
\* running service returns an error, and with status 0 otherwise.
C17_ExitStatusOneOnFailure ==
    svc.proc = "exited" =>
        (svc.status = Some(1) <=>
            (svc.startup \in {"config error", "listen error"} \/ svc.run = "returned"))

\* C19: the error handed to create_in_error is never a ListenError, a
\* RecvError or a ParseError, and no unreachable!() arm of it is executed.
C19_NoListenerErrorInReply ==
    \A c \in Conns :
        (c.pc = "synth" /\ c.err # NoError) =>
            /\ c.err.kind \notin {"ListenError", "RecvError", "ParseError"}
            /\ ~create_in_error(ConnMsg(c), c.err).unreachable
            /\ \A err \in ResolverErrors : ~create_in_error(ConnMsg(c), err).unreachable

C19_Witness ==
    /\ svc.failed
    /\ \E c \in Conns :
          /\ c.pc = "synth"
          /\ c.err.kind = "OutReply"
          /\ c.err.out = "ParseError"

\* A connection is closed: its task ends and nothing is left of it.
Closes(c) ==
    /\ c.protocol = "TCP"
    /\ LeftConns(c)
    /\ svc'.proc = "running"
    /\ BagCardinality(conns') < BagCardinality(conns)
    /\ inflight' = inflight

\* C20 as stated: a connection that is closed has had exactly one request
\* read from it.
C20_ExactlyOneRequest ==
    [][\A c \in Conns : Closes(c) => c.reads = 1]_vars

C20_State ==
    \A c \in Conns :
        c.protocol = "TCP" =>
            /\ c.reads \in {0, 1}
            /\ c.reads = 1 <=> c.pc \in {"spawned", "resolve", "synth"}

C20_Step ==
    /\ \A c \in BagToSet(conns') :
         (c.protocol = "TCP" /\ c.pc = "readlen" /\ EnteredConns(c)) =>
            /\ c.reads = 0
            /\ svc.run = "select"
            /\ svc'.event = "connection"
            /\ inflight' = inflight
    /\ \A c \in BagToSet(conns') :
         (c.protocol = "TCP" /\ c.pc = "readbody" /\ EnteredConns(c)) =>
            LeftConns([c EXCEPT !.pc = "readlen"])
    /\ \A tk \in Tasks :
         (tk.msg.protocol = "TCP" /\ Left(tk)) =>
            /\ tk.pc = "write"
            /\ conns' = conns \/ svc'.proc = "exited"

\* C20, amended: at most one length-prefixed request is read from an
\* accepted connection (none when the length or the body cannot be read) and
\* at most one reply is written to it, after which the connection is closed;
\* a request is read only from a connection just accepted, never from one
\* that a request was read from or a reply was written to.
C20_AtMostOneRequest == [](C20_State) /\ [][C20_Step]_vars

C20_Witness ==
    /\ \E tk \in Tasks : tk.msg.protocol = "TCP" /\ tk.pc = "write" /\ tk.rcode = "SERVFAIL"
    /\ svc.failed

(***************************************************************************)
(* Properties of the header and of the NSID of a reply.                    *)
(***************************************************************************)
\* C26: a reply made by create_in_reply or create_in_error has the qid and
\* the question of its query, qr set, rd clear, opcode QUERY, bufsize 4096
\* and EDNS version 0 exactly when the query had an EDNS version; a success
\* reply has tc, aa, cd, ad, ra and rcode of the out reply.
C26_ReplyHeader ==
    cv.fn \in {"create_in_reply", "create_in_error"} =>
        /\ cv.reply.qid = cv.msg.in_query.qid
        /\ cv.reply.question = cv.msg.in_query.question
        /\ cv.reply.qr = TRUE
        /\ cv.reply.rd = FALSE
        /\ cv.reply.opcode = "QUERY"
        /\ cv.reply.bufsize = 4096
        /\ cv.msg.in_query.edns_ver # None => cv.reply.edns_ver = Some(0)
        /\ cv.msg.in_query.edns_ver = None => cv.reply.edns_ver = None
        /\ cv.fn = "create_in_reply" =>
              /\ cv.reply.tc = cv.outr.tc
              /\ cv.reply.aa = cv.outr.aa
              /\ cv.reply.cd = cv.outr.cd
              /\ cv.reply.ad = cv.outr.ad
              /\ cv.reply.ra = cv.outr.ra
              /\ cv.reply.rcode = cv.outr.rcode

C26_Witness ==
    /\ cv.fn = "create_in_reply"
    /\ cv.msg.in_query.qid = 4660
    /\ cv.msg.in_query.edns_ver = Some(1)
    /\ cv.reply.edns_ver = Some(0)
    /\ cv.outr.tc /\ cv.reply.tc
    /\ cv.reply.rcode = "NXDOMAIN"

\* The text std::net::IpAddr's Display gives for the local addresses.
NsidText(ip) ==
    CASE ip = IP4B -> "192.0.2.53"
      [] ip = IP6B -> "2001:db8::53"
      [] ip = IP6M -> "::ffff:192.0.2.53"
      [] ip = IP6E -> "2001:0:1::1"
      [] ip = IP6F -> "2001:db8:1:2:3:4:5:abc"

\* C27: a success reply has an NSID exactly when the query had one, and it is
\* the text of the local address the query was received on.
C27_NsidIsLocalIpText ==
    cv.fn = "create_in_reply" =>
        /\ cv.reply.edns.nsid # None <=> cv.msg.in_query.nsid
        /\ cv.msg.in_query.nsid => cv.reply.edns.nsid = Some(NsidText(cv.msg.local_ip))

C27_Witness ==
    /\ cv.fn = "create_in_reply"
    /\ cv.msg.in_query.nsid
    /\ cv.msg.local_ip = IP6M
    /\ cv.reply.edns.nsid = Some("::ffff:192.0.2.53")

(***************************************************************************)
(* Properties of the framing of a TCP reply.                               *)
(***************************************************************************)
\* C21: the reply of a TCP request is serialised within the larger of 512
\* and the client's bufsize, so it is whole when it fits and never longer
\* than the limit, and it is handed to one write as two length octets, high
\* octet first, whose value is the number of payload octets after them; the
\* socket takes that frame or a prefix of it.
C21_TcpReplyFramed ==
    cv.fn = "run_tcp reply" =>
        LET limit == IF cv.tcp.bufsize > 512 THEN cv.tcp.bufsize ELSE 512
            bytes == cv.tcp.bytes
        IN /\ cv.tcp.natural <= limit => (bytes.payload = cv.tcp.natural /\ ~bytes.tc)
           /\ cv.tcp.natural > limit => (bytes.payload = limit /\ bytes.tc)
           /\ Len(bytes.length) = 2
           /\ bytes.length[1] \in 0..255 /\ bytes.length[2] \in 0..255
           /\ bytes.length[1] * 256 + bytes.length[2] = bytes.payload
           /\ cv.tcp.calls = 1
           /\ cv.tcp.written <= 2 + bytes.payload

C21_Witness ==
    /\ cv.fn = "run_tcp reply"
    /\ cv.tcp.natural = 2000
    /\ cv.tcp.bufsize = 4096
    /\ cv.tcp.bytes.length = <<7, 208>>
    /\ cv.tcp.bytes.payload = 2000
    /\ cv.tcp.written = 2002

(***************************************************************************)
(* Properties of the requests: reads, parse failures, reply addresses.     *)
(***************************************************************************)
\* The reads of a connection that did not give all the octets asked for.
ShortReads ==
    {"length: error", "length: 0 octets", "length: 1 octet", "body: error", "body: short"}

\* C22: a connection whose length read gives fewer than 2 octets, or whose
\* body read gives fewer octets than announced, or whose read fails, is done
\* with an error: the resolver was not called and nothing was written to it.
C22_ShortReadEndsConnection ==
    \A i \in ReqIds :
        (reqs[i].protocol = "TCP" /\ reqs[i].read \in ShortReads) =>
            /\ reqs[i].pc = "done"
            /\ reqs[i].end \in {"RecvError", "ParseError"}
            /\ reqs[i].resolver = 0
            /\ reqs[i].sent = <<>>

C22_Witness ==
    /\ Len(reqs) = 2
    /\ reqs[1].read = "length: 1 octet" /\ reqs[1].end = "ParseError"
    /\ reqs[2].read = "body: short" /\ reqs[2].end = "RecvError"

\* The step of the listener that a receive of run_udp completes in.
UdpReceiveStep == svc.run = "select" /\ svc'.run = "iterated" /\ svc'.event # "connection"

C23_Step ==
    /\ (UdpReceiveStep /\ svc'.event \in {"WouldBlock", "Interrupted"}) =>
          /\ svc'.result = "Ok"
          /\ conns' = conns
          /\ inflight' = inflight
    /\ (UdpReceiveStep /\ svc'.event = "Other") =>
          /\ svc'.result = "RecvError"
          /\ conns' = conns
          /\ inflight' = inflight
    /\ (UdpReceiveStep /\ svc'.result = "RecvError") => svc'.event = "Other"
    /\ (svc.run = "iterated" /\ svc'.run # "iterated"
        /\ svc.event \in {"WouldBlock", "Interrupted"}) =>
          svc'.run = "select" /\ svc'.proc = "running"
    /\ (svc.run = "iterated" /\ svc'.run # "iterated" /\ svc.event = "Other") =>
          svc'.run = "returned" /\ svc'.result = "RecvError"

\* C23: a receive that gives WouldBlock or Interrupted makes run_udp return
\* Ok with no task spawned and no reply, and the service selects again; a
\* receive that gives another error makes run_udp return RecvError, with
\* which the service returns.
C23_WouldBlockTolerated == [][C23_Step]_vars

C23_Witness ==
    /\ svc.run = "iterated"
    /\ svc.event = "WouldBlock"
    /\ svc.result = "Ok"
    /\ NumTasks > 0

\* The UDP requests whose task got to the parse and whose octets did not parse.
UdpParseFailures ==
    {i \in ReqIds :
        /\ reqs[i].protocol = "UDP"
        /\ reqs[i].local_ip # None /\ reqs[i].address # None
        /\ ~reqs[i].parses
        /\ reqs[i].pc = "done"}

\* C24: a datagram that does not parse gets no reply and no call of the
\* resolver or of should_ratelimit, and dns_in_query_result{UDP, parse fail}
\* counts each such datagram once.
C24_UdpParseFailureDropped ==
    /\ metrics[<<"UDP", "parse fail">>] = Cardinality(UdpParseFailures)
    /\ \A i \in ReqIds :
          (reqs[i].protocol = "UDP" /\ ~reqs[i].parses) =>
             /\ reqs[i].pc \in {"spawned", "done"}
             /\ reqs[i].sent = <<>>
             /\ reqs[i].resolver = 0
             /\ reqs[i].limiter = 0
    /\ \A i \in UdpParseFailures : reqs[i].end = "parse fail"

C24_Witness ==
    /\ Cardinality(UdpParseFailures) = 2
    /\ metrics[<<"UDP", "parse fail">>] = 2

\* C25: the reply of a datagram is sent to the peer address of that
\* datagram, with the local address that datagram was received on as its
\* source, whatever other requests are in flight.
C25_UdpReplyAddresses ==
    \A i \in ReqIds :
        reqs[i].protocol = "UDP" =>
            /\ Len(reqs[i].sent) <= 1
            /\ \A k \in 1..Len(reqs[i].sent) :
                  /\ reqs[i].address # None
                  /\ reqs[i].local_ip # None
                  /\ reqs[i].sent[k].to = reqs[i].address[1]
                  /\ reqs[i].sent[k].from = reqs[i].local_ip

C25_Witness ==
    /\ Len(reqs) = 2
    /\ reqs[1].protocol = "UDP" /\ reqs[2].protocol = "UDP"
    /\ reqs[1].sent = <<Packet(Some(IP4B), SocketAddr(IP4A, 5353))>>
    /\ reqs[2].local_ip = Some(IP6B)
    /\ reqs[2].pc = "send"

(***************************************************************************)
(* Properties of the two loops of the router advertisement service.        *)
(***************************************************************************)
\* A send whose send_msg failed.
FailedSend(res) == res.sent # None /\ ~res.sent[1].delivered

\* A turn of the unsolicited loop starts for one interface.
UnsolicitedTurn == radv.unsol = "loop" /\ radv'.todo # radv.todo

\* The task t comes back from send_announcement.
SendReturns(t) == radv[t] = "sent" /\ radv'[t] # "sent"

OtherTask(t) == IF t = "sol" THEN "unsol" ELSE "sol"

C28_State ==
    /\ FailedSend(radv.solicit) => radv.sol \in {"sent", "recv"}
    /\ FailedSend(radv.unsolicited) => radv.unsol \in {"sent", "loop", "sleep"}

C28_Step ==
    \A t \in RaTasks :
       (SendReturns(t) /\ FailedSend(radv[ResultOf(t)])) =>
          /\ radv'[ResultOf(t)].res = "Ok"
          /\ radv'[LogOf(t)] = <<"Failed to send router advertisement">>
          /\ radv'.tx = radv.tx
          /\ radv'[t] = Resume(t)
          /\ radv'.todo = radv.todo
          /\ radv'[OtherTask(t)] = radv[OtherTask(t)]
          /\ radv'[ResultOf(OtherTask(t))] = radv[ResultOf(OtherTask(t))]

\* C28: when send_msg fails, send_announcement logs a warning and returns
\* Ok, radv_sent_packets stays as it was, the loop that sent goes on (the
\* unsolicited loop with the interfaces still to do) and the other loop is
\* not touched.
C28_SendFailureNotFatal == [](C28_State) /\ [][C28_Step]_vars

C28_Witness ==
    /\ FailedSend(radv.unsolicited)
    /\ radv.unsol_log = <<"Failed to send router advertisement">>
    /\ radv.idx = 1
    /\ radv.todo = <<2, 3, 4>>
    /\ radv.unsol = "loop"
    /\ FailedSend(radv.solicit)
    /\ radv.sol_log = <<"Failed to send router advertisement">>
    /\ radv.sol = "recv"
    /\ radv.tx = 0

\* What the unsolicited loop did for the interface it handled last: an
\* advertisement to ff02::1 scoped to the interface for a MULTICAST
\* interface with known flags, unless it is unconfigured, and nothing for
\* any other.  A panic of build_announcement ends the task.
C29_State ==
    radv.idx # 0 =>
        LET idx == radv.idx
            res == radv.unsolicited
        IN IF radv.flags /\ idx \in {1, 2, 4}
           THEN \/ radv.unsol \in {"build", "send"} /\ res.sent = None
                \/ res.res = "panic" /\ radv.unsol = "panicked" /\ res.sent = None
                \/ /\ res.err = "UnconfiguredInterface"
                   /\ idx # 1
                   /\ res.sent = None
                \/ /\ res.res = "Ok"
                   /\ idx # 2
                   /\ res.sent # None
                   /\ res.sent[1].dst = NetAddr(ALL_NODES, idx)
                   /\ res.sent[1].intf = idx
                   /\ res.adv = Some([intf |-> idx])
           ELSE /\ res.sent = None /\ res.adv = None
                /\ radv.unsol \in {"loop", "sleep"}

C29_Step ==
    /\ (radv.unsol = "sleep" /\ radv'.unsol = "loop") => radv'.todo = <<1, 2, 3, 4>>
    /\ UnsolicitedTurn =>
          /\ radv'.idx = Head(radv.todo)
          /\ radv'.todo = Tail(radv.todo)
    /\ radv'.todo # radv.todo =>
          radv.unsol \in {"sleep", "loop"} /\ radv'.unsol \in {"loop", "build"}
    /\ (radv.unsol = "sent" /\ radv'.unsol # "sent") =>
          radv'.tx = radv.tx + TxPackets(radv.unsolicited)
    /\ (radv.unsol = "loop" /\ radv'.unsol = "sleep") => radv.todo = <<>>

\* C29: after a wake the unsolicited loop takes every interface once; for
\* an interface with the MULTICAST flag it attempts one advertisement to
\* ff02::1 with the interface as scope id, unless the interface is
\* unconfigured, and for an interface without the flag or with unknown
\* flags it sends nothing.
C29_UnsolicitedPerMulticastInterface == [](C29_State) /\ [][C29_Step]_vars

C29_Witness ==
    /\ radv.idx = 4
    /\ radv.flags
    /\ radv.unsolicited.sent = Some([dst |-> NetAddr(ALL_NODES, 4), intf |-> 4,
                                      delivered |-> TRUE])
    /\ radv.unsol = "loop"
    /\ radv.todo = <<>>
    /\ radv.tx = 2

\* C30: an interface reported as UnconfiguredInterface is skipped by both
\* loops without a send, without anything logged, and the loop goes on.
C30_UnconfiguredSkippedSilently ==
    /\ radv.solicit.err = "UnconfiguredInterface" =>
          /\ radv.solicit.sent = None
          /\ radv.sol_log = <<>>
          /\ radv.sol = "recv"
    /\ radv.unsolicited.err = "UnconfiguredInterface" =>
          /\ radv.unsolicited.sent = None
          /\ radv.unsol_log = <<>>
          /\ radv.unsol \in {"loop", "sleep"}

\* C31: the router lifetime of the advertisement of interface i is the
\* configured value when the interface's lifetime is Value(v) and 0 when it
\* is DontSet; when it is NotSpecified it is 3 * MAX_RTR_ADV_INTERVAL
\* (1800 s) if an IPv6 default route exists on an interface other than i,
\* and 0 if there is no default route or the default route is on i.
C31_RouterLifetime ==
    cv.fn = "build_announcement" =>
        LET l == cv.ra.intf.lifetime
            route == cv.ra.route
            i == cv.ra.ifidx
            life == cv.ra.msg.lifetime
        IN /\ l.tag = "Value" => life = l.v
           /\ l.tag = "DontSet" => life = 0
           /\ l.tag = "NotSpecified" =>
                 /\ (route # None /\ route[1].gwif # None /\ route[1].gwif # Some(i))
                       => life = 1800
                 /\ (route = None \/ route[1].gwif = Some(i)) => life = 0

C31_Witness ==
    /\ cv.fn = "build_announcement"
    /\ cv.ra.intf.lifetime.tag = "NotSpecified"
    /\ cv.ra.ifidx = 1
    /\ cv.ra.route = Some([gw |-> LL1, gwif |-> Some(2)])
    /\ cv.ra.msg.lifetime = 1800

\* C32: when the interface's rdnss, dnssl and captive_portal are DontSet,
\* the advertisement of build_announcement_pure has no RDNSS, no DNSSL and
\* no captive-portal option, whatever dns_servers, dns_search and
\* captive_portal the globals contain; each setting suppresses its own
\* option.
C32_DontSetSuppresses ==
    cv.fn = "build_announcement_pure" =>
        LET intf == cv.ra.intf
            options == cv.ra.msg.options
        IN /\ intf.rdnss = DontSet => find_option(options, "RDNSS") = <<>>
           /\ intf.dnssl = DontSet => find_option(options, "DNSSL") = <<>>
           /\ intf.captive_portal = DontSet => find_option(options, "CaptivePortal") = <<>>

C32_Witness ==
    /\ cv.fn = "build_announcement_pure"
    /\ cv.ra.intf.rdnss = DontSet
    /\ cv.ra.intf.dnssl = DontSet
    /\ cv.ra.intf.captive_portal = DontSet
    /\ cv.ra.config = [dns_servers |-> <<IP4B, IP6B>>, dns_search |-> <<"example.com">>,
                       captive_portal |-> Some("example.com")]
    /\ find_option(cv.ra.msg.options, "Mtu") # <<>>
    /\ \A o \in 1..Len(cv.ra.msg.options) :
          cv.ra.msg.options[o].type \notin {"RDNSS", "DNSSL", "CaptivePortal"}

\* C33: when rdnss (dnssl) is NotSpecified the RDNSS (DNSSL) option is
\* emitted if and only if the fallback list is not empty, and carries it:
\* for RDNSS the IPv6 entries of the global dns_servers in order, every ::
\* replaced by self6 and every IPv4 entry dropped; for DNSSL the global
\* dns_search.  Value(v) always emits the option carrying v.
C33_NotSpecifiedFallback ==
    cv.fn = "build_announcement_pure" =>
        LET intf == cv.ra.intf
            config == cv.ra.config
            rdnss == find_option(cv.ra.msg.options, "RDNSS")
            dnssl == find_option(cv.ra.msg.options, "DNSSL")
            servers == Rdnss6(config.dns_servers, cv.ra.self6)
        IN /\ intf.rdnss = NotSpecified =>
                 /\ (rdnss # <<>>) <=> (servers # <<>>)
                 /\ rdnss # <<>> => Len(rdnss) = 1 /\ rdnss[1].value[2] = servers
           /\ intf.dnssl = NotSpecified =>
                 /\ (dnssl # <<>>) <=> (config.dns_search # <<>>)
                 /\ dnssl # <<>> => Len(dnssl) = 1 /\ dnssl[1].value[2] = config.dns_search
           /\ intf.rdnss.tag = "Value" =>
                 Len(rdnss) = 1 /\ rdnss[1].value[2] = intf.rdnss.v
           /\ intf.dnssl.tag = "Value" =>
                 Len(dnssl) = 1 /\ dnssl[1].value[2] = intf.dnssl.v

\* The rank of an address in the order of the claim, and the order of two
\* addresses by numeric value.
C34_Rank(ip6) ==
    CASE v6_scope(ip6) = "UniqueLocalAddress" -> 3
      [] v6_scope(ip6) = "Global" -> 2
      [] v6_scope(ip6) = "Link" -> 1
      [] OTHER -> 0

C34_NumLess(x, y) ==
    \E i \in 1..16 : x[i] < y[i] /\ \A j \in 1..(i - 1) : x[j] = y[j]

C34_Permuted(s, p) == [i \in 1..Len(s) |-> s[p[i]]]

C34_Permutations(n) == {p \in [1..n -> 1..n] : \A i, j \in 1..n : p[i] = p[j] => i = j}

\* C34: source addresses are ordered ULA > Global > LinkLocal > every other
\* scope, addresses of equal rank by numeric value; the order is total
\* (exactly one of less, equal, greater; equal only for the same address;
\* transitive), so the greatest address of a non-empty set is the same
\* whatever the order in which the addresses are enumerated.
C34_ScopeOrderTotal ==
    /\ cv.fn = "ScopeSorter::cmp" =>
          LET a == cv.ra.a
              b == cv.ra.b
              less == {"Less", "Equal"}
          IN /\ C34_Rank(a) < C34_Rank(b) => cv.ra.ab = "Less"
             /\ C34_Rank(a) = C34_Rank(b) /\ C34_NumLess(a, b) => cv.ra.ab = "Less"
             /\ cv.ra.ab = "Equal" <=> a = b
             /\ cv.ra.ab = "Less" <=> cv.ra.ba = "Greater"
             /\ cv.ra.ab = "Greater" <=> cv.ra.ba = "Less"
             /\ cv.ra.ab \in less /\ cv.ra.bc \in less => cv.ra.ac \in less
             /\ cv.ra.ab = "Less" /\ cv.ra.bc \in less => cv.ra.ac = "Less"
    /\ cv.fn = "self6" =>
          LET prefixes == cv.ra.prefixes
              v6 == {prefixes[i] : i \in {j \in 1..Len(prefixes) : Len(prefixes[j]) = 16}}
          IN /\ v6 = {} <=> cv.ra.self6 = None
             /\ v6 # {} =>
                   /\ cv.ra.self6[1] \in v6
                   /\ \A x \in v6 : ScopeSorter_cmp(x, cv.ra.self6[1]) \in {"Less", "Equal"}
             /\ \A p \in C34_Permutations(Len(prefixes)) :
                   build_announcement_self6(C34_Permuted(prefixes, p)) = cv.ra.self6

C34_Witness ==
    /\ cv.fn = "self6"
    /\ cv.ra.prefixes = <<ULA2, IP4B, ULA1>>
    /\ cv.ra.self6 = Some(ULA1)
    /\ build_announcement_self6(<<ULA1, IP4B, ULA2>>) = Some(ULA1)
    /\ build_announcement_self6(<<LL1, IP6A>>) = Some(IP6A)
    /\ build_announcement_self6(<<MC1, LL1>>) = Some(LL1)

\* C37: when IpRateLimiter::check permits a request, the tokens are taken
\* from whichever of the IP's two buckets has more tokens available: the
\* bucket a task depletes holds, at that step, at least as many tokens as
\* the other bucket of its IP.
C37_TakesFromFullerBucket ==
    [][\A tk \in Tasks :
          LET b1 == buckets[Bucket1(tk.msg.remote_ip)]
              b2 == buckets[Bucket2(tk.msg.remote_ip)]
          IN /\ Deplete1(tk) => Available(b1, now) >= Available(b2, now)
             /\ Deplete2(tk) => Available(b2, now) >= Available(b1, now)]_vars

(***************************************************************************)
(* IpRateLimiter::check at the grain of its lock acquisitions: each bucket *)
(* is a tokio::sync::RwLock, read for the probe and written for the        *)
(* depletion.  reqs holds the calls of check, one per request, in the      *)
(* order in which they were made; requests come from two remote addresses, *)
(* whose hashes may or may not select a common bucket.                     *)
(***************************************************************************)
MaxCalls == 3

\* A call of check: where it is, the guards it holds (bucket and mode), the
\* tokens its successful probe saw, the addresses whose calls depleted the
\* probed bucket between that probe and this call's own depletion, the
\* bucket it depleted when that held less than the cost, and the result.
Call(ip, bytes, pc, held, seen, others, over, result) ==
    [ip |-> ip, bytes |-> bytes, pc |-> pc, held |-> held, seen |-> seen,
     others |-> others, over |-> over, result |-> result]

CallIds == 1..MaxCalls

\* The bucket that the call is working on.
CallBucket(c) ==
    IF c.pc \in {"read1", "check1", "write1", "deplete1"}
    THEN Bucket1(c.ip) ELSE Bucket2(c.ip)

\* The guards held on bucket b by all calls.
Guards(b) == {<<i, g>> \in (1..Len(reqs)) \X {<<b, "read">>, <<b, "write">>} :
                 g \in reqs[i].held}

\* The hashes of the two addresses: those of hash_ip, with no common
\* bucket, and for pairs of addresses whose hashes collide the same two
\* buckets for both, the first bucket of one the second of the other, and a
\* common second bucket.
CheckHashers ==
    {DefaultHasher,
     [x \in Seeds \X AllRemoteIPs |-> 1],
     [x \in Seeds \X AllRemoteIPs |->
         IF x \in {<<SEED2, IP4A>>, <<SEED1, IP6A>>} THEN 255 ELSE 1],
     [x \in Seeds \X AllRemoteIPs |-> IF x = <<SEED1, IP4A>> THEN 1 ELSE 255]}

InitCheck ==
    /\ now = 0
    /\ buckets = [i \in BucketIds |-> NewBucket]
    /\ hasher \in CheckHashers
    /\ inflight = EmptyBag
    /\ sentCost = [ip \in RemoteIPs |-> 0]
    /\ wstart = 0
    /\ overlap = [ip \in RemoteIPs |-> FALSE]
    /\ cv = CvIdle
    /\ conns = EmptyBag
    /\ svc = SvcStart
    /\ radv = RaStart
    /\ reqs = <<>>
    /\ metrics = NoMetrics

\* should_ratelimit calls check for a REFUSED reply to ip without a valid
\* cookie; the call is about to ask for the read lock of bucket1.
CheckCall ==
    /\ Len(reqs) < MaxCalls
    /\ \E ip \in AllRemoteIPs :
          reqs' = Append(reqs, Call(ip, Cost(RefusedSize, QuerySize), "read1", {}, 0, {},
                                    None, "pending"))
    /\ UNCHANGED <<now, buckets, hasher, inflight, sentCost, wstart, overlap, cv, conns, svc, radv, metrics>>

\* self.0[bucket].read().await completes: no writer holds the bucket.
ReadAcquire(i) ==
    LET c == reqs[i]
        b == CallBucket(c)
    IN /\ c.pc \in {"read1", "read2"}
       /\ \A g \in Guards(b) : g[2][2] # "write"
       /\ reqs' = [reqs EXCEPT ![i].held = @ \cup {<<b, "read">>},
                               ![i].pc = IF c.pc = "read1" THEN "check1" ELSE "check2"]
       /\ UNCHANGED <<now, buckets, hasher, inflight, sentCost, wstart, overlap, cv, conns, svc, radv, metrics>>

\* Mutant: the read guard lives until the end of the branch taken, as it
\* would in an `if let` or a `match`.
ReadProbe_keepguard(i) ==
    LET c == reqs[i]
        b == CallBucket(c)
        ok == BucketCheck(buckets[b], now, c.bytes)
    IN /\ c.pc \in {"check1", "check2"}
       /\ reqs' = [reqs EXCEPT
                      ![i].held = IF ok \/ c.pc = "check1" THEN @ ELSE @ \ {<<b, "read">>},
                      ![i].seen = IF ok THEN Available(buckets[b], now) ELSE @,
                      ![i].pc = IF ok THEN (IF c.pc = "check1" THEN "write1" ELSE "write2")
                                ELSE IF c.pc = "check1" THEN "read2" ELSE "returned",
                      ![i].result = IF ~ok /\ c.pc = "check2" THEN "false" ELSE @]
       /\ UNCHANGED <<now, buckets, hasher, inflight, sentCost, wstart, overlap, cv, conns, svc, radv, metrics>>

\* .check::<RealTimeClock>(bytes) under the read guard; the guard is a
\* temporary of the `if` condition and is dropped when the condition has
\* been evaluated, before either branch runs.
ReadProbe(i) ==
    LET c == reqs[i]
        b == CallBucket(c)
        ok == BucketCheck(buckets[b], now, c.bytes)
    IN /\ c.pc \in {"check1", "check2"}
       /\ reqs' = [reqs EXCEPT
                      ![i].held = @ \ {<<b, "read">>},
                      ![i].seen = IF ok THEN Available(buckets[b], now) ELSE @,
                      ![i].pc = IF ok THEN (IF c.pc = "check1" THEN "write1" ELSE "write2")
                                ELSE IF c.pc = "check1" THEN "read2" ELSE "returned",
                      ![i].result = IF ~ok /\ c.pc = "check2" THEN "false" ELSE @]
       /\ UNCHANGED <<now, buckets, hasher, inflight, sentCost, wstart, overlap, cv, conns, svc, radv, metrics>>

\* self.0[bucket].write().await completes: nobody holds the bucket.
WriteAcquire(i) ==
    LET c == reqs[i]
        b == CallBucket(c)
    IN /\ c.pc \in {"write1", "write2"}
       /\ Guards(b) = {}
       /\ reqs' = [reqs EXCEPT ![i].held = @ \cup {<<b, "write">>},
                               ![i].pc = IF c.pc = "write1" THEN "deplete1" ELSE "deplete2"]
       /\ UNCHANGED <<now, buckets, hasher, inflight, sentCost, wstart, overlap, cv, conns, svc, radv, metrics>>

\* The calls, other than i, that have probed bucket b and not yet depleted it.
Probed(i, b) ==
    {j \in 1..Len(reqs) :
        /\ j # i
        /\ reqs[j].pc \in {"write1", "write2", "deplete1", "deplete2"}
        /\ CallBucket(reqs[j]) = b}

\* Mutant: the depletion always goes to bucket1.
WriteDeplete_bucket1(i) ==
    LET c == reqs[i]
        b == CallBucket(c)
        d == Bucket1(c.ip)
    IN /\ c.pc \in {"deplete1", "deplete2"}
       /\ buckets' = [buckets EXCEPT ![d] = BucketDeplete(buckets[d], now, c.bytes)]
       /\ reqs' = [j \in 1..Len(reqs) |->
                     IF j = i
                     THEN [c EXCEPT !.held = @ \ {<<b, "write">>}, !.pc = "returned",
                                    !.over = IF Available(buckets[b], now) < c.bytes
                                            THEN Some(b) ELSE None,
                                    !.result = "true"]
                     ELSE IF j \in Probed(i, b)
                     THEN [reqs[j] EXCEPT !.others = @ \cup {c.ip}]
                     ELSE reqs[j]]
       /\ UNCHANGED <<now, hasher, inflight, sentCost, wstart, overlap, cv, conns, svc, radv, metrics>>

\* .deplete::<RealTimeClock>(bytes) under the write guard, which is dropped
\* at the end of the statement; check returns true.
WriteDeplete(i) ==
    LET c == reqs[i]
        b == CallBucket(c)
    IN /\ c.pc \in {"deplete1", "deplete2"}
       /\ buckets' = [buckets EXCEPT ![b] = BucketDeplete(buckets[b], now, c.bytes)]
       /\ reqs' = [j \in 1..Len(reqs) |->
                     IF j = i
                     THEN [c EXCEPT !.held = @ \ {<<b, "write">>}, !.pc = "returned",
                                    !.over = IF Available(buckets[b], now) < c.bytes
                                            THEN Some(b) ELSE None,
                                    !.result = "true"]
                     ELSE IF j \in Probed(i, b)
                     THEN [reqs[j] EXCEPT !.others = @ \cup {c.ip}]
                     ELSE reqs[j]]
       /\ UNCHANGED <<now, hasher, inflight, sentCost, wstart, overlap, cv, conns, svc, radv, metrics>>

\* The steps of call i.
CallStep(i) ==
    /\ i <= Len(reqs)
    /\ \/ ReadAcquire(i)
       \/ ReadProbe(i)
       \/ WriteAcquire(i)
       \/ WriteDeplete(i)

NextCheck ==
    \/ CheckCall
    \/ \E i \in 1..Len(reqs) : ReadAcquire(i)
    \/ \E i \in 1..Len(reqs) : ReadProbe(i)
    \/ \E i \in 1..Len(reqs) : WriteAcquire(i)
    \/ \E i \in 1..Len(reqs) : WriteDeplete(i)

SpecCheck == InitCheck /\ [][NextCheck]_vars

\* The tasks run on the tokio runtime, which polls every task that can make
\* progress.
SpecCheckFair == SpecCheck /\ \A i \in CallIds : WF_vars(CallStep(i))

\* C38: during IpRateLimiter::check a task never waits for a bucket's write
\* lock (nor for a read lock) while it holds a guard on any bucket, and
\* never holds locks on two buckets at once; hence concurrent calls, on
\* the same or on different addresses, cannot deadlock, and under fair
\* scheduling every call that was made eventually returns: from some point
\* on, all the calls made have returned and stay so.
C38_NoHoldAndWaitAndReturns ==
    /\ [](\A i \in 1..Len(reqs) :
             /\ reqs[i].pc \in {"read1", "read2", "write1", "write2"} => reqs[i].held = {}
             /\ Cardinality({g[1] : g \in reqs[i].held}) <= 1
             /\ Cardinality(reqs[i].held) <= 1)
    /\ <>[](\A i \in 1..Len(reqs) : reqs[i].pc = "returned")

\* Two calls of different addresses have probed the same bucket; one holds
\* its write guard while the other waits for it, holding nothing.
C38_Witness ==
    /\ Len(reqs) >= 2
    /\ reqs[1].ip # reqs[2].ip
    /\ reqs[1].pc = "deplete1"
    /\ reqs[1].held = {<<Bucket1(reqs[1].ip), "write">>}
    /\ reqs[2].pc = "write2"
    /\ reqs[2].held = {}
    /\ Bucket2(reqs[2].ip) = Bucket1(reqs[1].ip)

\* C35 as stated: probe and depletion are not atomic and a bucket may be
\* depleted by more than it holds, but this arises only among concurrent
\* requests from the same IP and penalizes only that IP: a call that
\* depletes a bucket short of the cost lost the tokens to calls of its own
\* address, and the bucket serves no other address, so that no request of
\* a different address can be denied for it.
C35_SelfPenalizingOnly ==
    \A i \in 1..Len(reqs) :
        reqs[i].over # None =>
            /\ reqs[i].others \subseteq {reqs[i].ip}
            /\ \A ip \in AllRemoteIPs \ {reqs[i].ip} :
                  reqs[i].over[1] \notin {Bucket1(ip), Bucket2(ip)}

\* C35, amended: a bucket is depleted by more than it holds only when other
\* calls that had probed the same bucket, from the same address or from
\* another address whose hashes select it, depleted it between the probe
\* (which found the cost) and the depletion; and a depletion takes tokens
\* from the probed bucket of the depleting call alone, so only addresses
\* that hash into that bucket are penalized.
C35_OverDepletionPerBucket ==
    /\ [](\A i \in 1..Len(reqs) :
             /\ reqs[i].pc \in {"write1", "write2", "deplete1", "deplete2"}
                   => reqs[i].seen >= reqs[i].bytes
             /\ reqs[i].over # None =>
                   /\ reqs[i].seen >= reqs[i].bytes
                   /\ reqs[i].others # {}
                   /\ \A ip \in reqs[i].others :
                         reqs[i].over[1] \in {Bucket1(ip), Bucket2(ip)}
                   /\ reqs[i].over[1] \in {Bucket1(reqs[i].ip), Bucket2(reqs[i].ip)})
    /\ [][buckets' # buckets =>
             \E i \in 1..Len(reqs) :
                 /\ reqs[i].pc \in {"deplete1", "deplete2"}
                 /\ reqs'[i].pc = "returned"
                 /\ buckets' = [buckets EXCEPT ![CallBucket(reqs[i])] =
                                   BucketDeplete(@, now, reqs[i].bytes)]]_vars

\* Two calls of different addresses were both permitted from one bucket,
\* which the second depleted when the first had left it short.
C35_Witness ==
    /\ Len(reqs) >= 2
    /\ reqs[1].ip # reqs[2].ip
    /\ reqs[1].result = "true"
    /\ reqs[2].result = "true"
    /\ reqs[2].over # None
    /\ reqs[2].others = {reqs[1].ip}
    /\ buckets[reqs[2].over[1]].tokens < 0

\* C39: cookie round trip.  If a success reply to a query with client
\* cookie c from remote address a to local address l gives server cookie s,
\* a later query from a to l that carries (c, s) validates as Good under
\* the server key, whatever its remote port or protocol, and a REFUSED
\* reply to it is sent without the limiter being consulted, whatever the
\* buckets of the address hold.
C39_CookieRoundTrip ==
    cv.fn = "cookie round trip" =>
        /\ cv.reply.edns.cookie.present /\ cv.reply.edns.cookie.has_server
        /\ cv.reply.edns.cookie.client = cv.msg.cookie.client
        /\ cv.msg2.cookie = cv.reply.edns.cookie
        /\ cv.msg2.local_ip = cv.msg.local_ip /\ cv.msg2.remote_ip = cv.msg.remote_ip
        /\ cv.status = "Good"
        /\ ~Gated(cv.msg2, "REFUSED")
        /\ cv.task.pc = IF cv.msg2.protocol = "UDP" THEN "send" ELSE "write"
        /\ ~cv.task.consulted
        /\ cv.task.cost = 0

\* The first query came with a stale server cookie from port 5353; the
\* second comes from another port and its REFUSED reply is sent.
C39_Witness ==
    /\ cv.fn = "cookie round trip"
    /\ cv.msg.cookie = FullCookie(ClientCookieA, BadTag)
    /\ validate_cookie_key(cv.msg, COOKIE_KEY) = "Bad"
    /\ cv.msg2.remote_port = 5354
    /\ cv.msg2.protocol = "UDP"
    /\ cv.status = "Good"
    /\ cv.task.pc = "send"


(***************************************************************************)
(* One iteration of DnsListenerHandler::run at the grain of the polls of   *)
(* its two futures, with the RwLock around the handler.  The datagrams     *)
(* and the connections wait in the kernel until a receive or an accept     *)
(* completes; svc carries the position of each future, the guards of the   *)
(* lock and the counts of what was received and what was spawned.          *)
(***************************************************************************)
MaxArrivals == 2

\* The listener about to poll the futures of its first iteration.  A future
\* is "new" before its first poll and "pending" once a poll has left it
\* waiting; readers and writer are the guards of the RwLock that are held.
SelectStart ==
    [proc |-> "running", startup |-> "ok", status |-> None, run |-> "select",
     result |-> "", event |-> "", failed |-> FALSE, resumed |-> FALSE,
     udp_fut |-> "new", tcp_fut |-> "new", udp_queue |-> 0, backlog |-> 0,
     received |-> 0, accepted |-> 0, spawned_udp |-> 0, spawned_tcp |-> 0,
     readers |-> 0, writer |-> FALSE]

InitSelect ==
    /\ now = 0
    /\ buckets = [i \in BucketIds |-> NewBucket]
    /\ hasher = [x \in Seeds \X RemoteIPs |-> 1]
    /\ inflight = EmptyBag
    /\ sentCost = [ip \in RemoteIPs |-> 0]
    /\ wstart = 0
    /\ overlap = [ip \in RemoteIPs |-> FALSE]
    /\ cv = CvIdle
    /\ conns = EmptyBag
    /\ svc = SelectStart
    /\ radv = RaStart
    /\ reqs = <<>>
    /\ metrics = NoMetrics

\* A datagram reaches the socket.
DatagramArrives ==
    /\ svc.proc = "running"
    /\ svc.udp_queue + svc.received < MaxArrivals
    /\ svc' = [svc EXCEPT !.udp_queue = @ + 1]
    /\ UNCHANGED <<now, buckets, hasher, inflight, sentCost, wstart, overlap, cv, conns, radv, reqs, metrics>>

\* A connection reaches the listening socket.
ConnectionArrives ==
    /\ svc.proc = "running"
    /\ svc.backlog + svc.accepted < MaxArrivals
    /\ svc' = [svc EXCEPT !.backlog = @ + 1]
    /\ UNCHANGED <<now, buckets, hasher, inflight, sentCost, wstart, overlap, cv, conns, radv, reqs, metrics>>

\* The read guards the futures of the listener hold: run_udp drops its guard
\* before recv_msg, run_tcp_listener keeps its guard while accept is pending.
ListenerGuards(s) == IF s.tcp_fut = "pending" THEN 1 ELSE 0

\* select! has a ready future: run returns its result and drops both
\* futures, the loser with the guard it holds.
SelectReturns(s, it) ==
    [s EXCEPT !.run = "iterated", !.result = it.result, !.event = it.event,
              !.udp_fut = "new", !.tcp_fut = "new",
              !.readers = @ - ListenerGuards(s)]

\* Mutant: an await between recv_msg and tokio::spawn; the datagram
\* received waits in the future for the next poll.
PollUdp_await ==
    /\ svc.proc = "running"
    /\ svc.run = "select"
    /\ svc.udp_fut = "new" => ~svc.writer
    /\ \/ /\ svc.udp_fut # "got"
          /\ svc.udp_queue > 0
          /\ svc' = [svc EXCEPT !.udp_fut = "got", !.udp_queue = @ - 1,
                                !.received = @ + 1]
          /\ conns' = conns
       \/ /\ svc.udp_fut = "got"
          /\ LET it == run_udp([io |-> "Ok", kind |-> "ok", cookie |-> NoCookie])
             IN  /\ svc' = SelectReturns([svc EXCEPT !.spawned_udp = @ + 1], it)
                 /\ conns' = conns (+) One(it.spawned[1])
       \/ /\ svc.udp_fut # "got"
          /\ svc.udp_queue = 0
          /\ svc' = [svc EXCEPT !.udp_fut = "pending"]
          /\ conns' = conns
    /\ UNCHANGED <<now, buckets, hasher, inflight, sentCost, wstart, overlap, cv, radv, reqs, metrics>>

\* select! polls the future of run_udp: its first poll takes and drops the
\* read guard; recv_msg gives a datagram that waits, an error, or leaves the
\* future pending.  A datagram received is spawned in the same poll.
PollUdp ==
    /\ svc.proc = "running"
    /\ svc.run = "select"
    /\ svc.udp_fut = "new" => ~svc.writer
    /\ \/ /\ svc.udp_queue > 0
          /\ LET it == run_udp([io |-> "Ok", kind |-> "ok", cookie |-> NoCookie])
             IN  /\ svc' = SelectReturns([svc EXCEPT !.udp_queue = @ - 1,
                                                     !.received = @ + 1,
                                                     !.spawned_udp = @ + 1], it)
                 /\ conns' = conns (+) One(it.spawned[1])
       \/ /\ \E e \in {"WouldBlock", "Interrupted", "Other"} :
                svc' = SelectReturns(svc, run_udp([io |-> e, kind |-> "", cookie |-> NoCookie]))
          /\ conns' = conns
       \/ /\ svc.udp_queue = 0
          /\ svc' = [svc EXCEPT !.udp_fut = "pending"]
          /\ conns' = conns
    /\ UNCHANGED <<now, buckets, hasher, inflight, sentCost, wstart, overlap, cv, radv, reqs, metrics>>

\* select! polls the future of run_tcp_listener: its first poll takes the
\* read guard, which it keeps while accept is pending; a connection
\* accepted is spawned in the same poll.
PollTcp ==
    /\ svc.proc = "running"
    /\ svc.run = "select"
    /\ svc.tcp_fut = "new" => ~svc.writer
    /\ \/ /\ svc.backlog > 0
          /\ LET it == run_tcp_listener(TRUE)
             IN  /\ svc' = SelectReturns([svc EXCEPT !.backlog = @ - 1,
                                                     !.accepted = @ + 1,
                                                     !.spawned_tcp = @ + 1], it)
                 /\ conns' = conns (+) One(it.spawned[1])
       \/ /\ svc' = SelectReturns(svc, run_tcp_listener(FALSE))
          /\ conns' = conns
       \/ /\ svc.backlog = 0
          /\ svc.tcp_fut = "new"
          /\ svc' = [svc EXCEPT !.tcp_fut = "pending", !.readers = @ + 1]
          /\ conns' = conns
    /\ UNCHANGED <<now, buckets, hasher, inflight, sentCost, wstart, overlap, cv, radv, reqs, metrics>>

\* Mutant: recv_in_query takes the write side of the lock.
TaskQuery_write(c) ==
    /\ CopiesIn(c, conns) > 0
    /\ c.pc \in {"spawned", "readlen"}
    /\ ~svc.writer
    /\ svc.readers = 0
    /\ svc' = [svc EXCEPT !.writer = TRUE]
    /\ conns' = (conns (-) One(c)) (+) One([c EXCEPT !.pc = "resolve"])
    /\ UNCHANGED <<now, buckets, hasher, inflight, sentCost, wstart, overlap, cv, radv, reqs, metrics>>

\* The spawned task reaches recv_in_query, which takes the read guard and
\* keeps it while handle_query runs.
TaskQuery(c) ==
    /\ CopiesIn(c, conns) > 0
    /\ c.pc \in {"spawned", "readlen"}
    /\ ~svc.writer
    /\ svc' = [svc EXCEPT !.readers = @ + 1]
    /\ conns' = (conns (-) One(c)) (+) One([c EXCEPT !.pc = "resolve"])
    /\ UNCHANGED <<now, buckets, hasher, inflight, sentCost, wstart, overlap, cv, radv, reqs, metrics>>

\* recv_in_query: handle_query returns, the reply is built and counted and
\* the guard is dropped; the task serialises the reply and goes on to send
\* or to write it.
TaskReply(c) ==
    /\ CopiesIn(c, conns) > 0
    /\ c.pc = "resolve"
    /\ svc' = [svc EXCEPT !.readers = IF svc.writer THEN @ ELSE @ - 1,
                          !.writer = FALSE]
    /\ conns' = conns (-) One(c)
    /\ inflight' = inflight (+) One(Reply(ConnMsg(c), InReply(c).rcode,
                                          ReplySize(InReply(c).rcode), c.protocol = "UDP"))
    /\ metrics' = Inc(metrics, <<c.protocol, "status">>)
    /\ UNCHANGED <<now, buckets, hasher, sentCost, wstart, overlap, cv, radv, reqs>>

\* The tasks the listener of this specification spawns: their queries
\* parse and the resolver answers them.
SelectConns ==
    {Conn("UDP", pc, "ok", NoCookie, NoError, 0) : pc \in {"spawned", "resolve"}}
    \cup {Conn("TCP", pc, "", NoCookie, NoError, 0) : pc \in {"readlen", "resolve"}}

NextSelect ==
    \/ DatagramArrives
    \/ ConnectionArrives
    \/ PollUdp
    \/ PollTcp
    \/ DnsServiceRun
    \/ GoJoin
    \/ \E c \in SelectConns : TaskQuery(c)
    \/ \E c \in SelectConns : TaskReply(c)
    \/ \E tk \in Tasks : UdpSend(tk)
    \/ \E tk \in Tasks : TcpWrite(tk)

SpecSelect == InitSelect /\ [][NextSelect]_vars

\* The tasks that hold a read guard.
Resolving == BagCardinality(conns) - CopiesIn(Conn("UDP", "spawned", "ok", NoCookie, NoError, 0), conns)
             - CopiesIn(Conn("TCP", "readlen", "", NoCookie, NoError, 0), conns)

\* C36: the lock around the listener handler is only ever taken for reading:
\* the write side is never held, the guards held are those of the pending
\* accept and of the tasks inside recv_in_query, and no acquisition waits:
\* the first poll of each future and recv_in_query of each spawned task can
\* always take their guard.
C36_HandlerLockReadOnly ==
    /\ ~svc.writer
    /\ svc.proc = "running" => svc.readers = ListenerGuards(svc) + Resolving
    /\ svc.proc = "running" /\ svc.run = "select" => ENABLED PollUdp /\ ENABLED PollTcp
    /\ \A c \in SelectConns :
          CopiesIn(c, conns) > 0 /\ c.pc \in {"spawned", "readlen"} => ENABLED TaskQuery(c)

\* C36 witness: the accept is pending with its guard while two tasks are
\* inside recv_in_query with theirs, and a third task is about to take one.
C36_Witness ==
    /\ svc.run = "select"
    /\ svc.tcp_fut = "pending"
    /\ svc.readers = 3
    /\ \E c \in SelectConns : CopiesIn(c, conns) > 0 /\ c.pc \in {"spawned", "readlen"}

\* C40: when an iteration has returned, both futures are gone, the loser
\* with its guard; every datagram whose receive completed and every
\* connection whose accept completed has exactly one spawned task, and what
\* was not received still waits in its socket; and while the listener polls,
\* the receive and the accept can proceed whatever the spawned tasks do.
C40_SelectLosesNothing ==
    /\ svc.run = "iterated" =>
          /\ svc.udp_fut = "new" /\ svc.tcp_fut = "new"
          /\ svc.readers = Resolving
          /\ svc.received = svc.spawned_udp
          /\ svc.accepted = svc.spawned_tcp
    /\ svc.proc = "running" /\ svc.run = "select" =>
          /\ svc.udp_queue > 0 => ENABLED PollUdp
          /\ svc.backlog > 0 => ENABLED PollTcp

\* C40 witness: an iteration has returned with a datagram received while
\* the accept was pending, a connection still waits in the backlog, and a
\* task spawned by an earlier iteration has not finished.
C40_Witness ==
    /\ svc.run = "iterated"
    /\ svc.event = "datagram"
    /\ svc.received = 2
    /\ svc.backlog > 0
    /\ BagCardinality(conns) = 2

====
